---- MODULE Spec2Model ----
(***************************************************************************)
(* Model of the conversational analytics orchestration core of             *)
(* work-o-pilot-backend: intent validation (services/router_ai.py), asset  *)
(* resolution and the analytics executor (pipelines/analytics/executor.py),*)
(* the pipeline dispatcher (pipelines/dispatcher.py), the conversation     *)
(* context (models/context.py) and the chat turn (routers/chat.py).        *)
(*                                                                         *)
(* Strings that the code upper-cases, strips or searches are sequences of  *)
(* one-character strings, so that str.upper(), str.strip() and the `in`    *)
(* tests are computed and not assumed.  Other texts are sequences of       *)
(* string pieces.  An Optional[T] is a sequence of length <= 1: <<>> is    *)
(* None and <<v>> is the value v.                                          *)
(***************************************************************************)
EXTENDS Integers, Sequences, FiniteSets, TLC

VARIABLES
    pc,               \* position of the modelled handler / function
    user_assets,      \* rows of the "assets" table of the user (List[Asset])
    user_tickers,     \* user_tickers argument / chat local
    market,           \* what yfinance returns per symbol during the turn
    groq_client,      \* state of the classifier client during the turn
    raw_response,     \* Optional completion the classifier client returned
    classified,       \* RouterAIOutput as returned by classify_intent
    router_output,    \* RouterAIOutput after validation / reference resolution
    requested,        \* resolve_assets argument requested_assets
    allow_external,   \* resolve_assets argument allow_external
    resolved,         \* value returned by resolve_assets / resolve_reference
    ref_text,         \* resolve_reference argument reference
    analytics_result, \* Optional[AnalyticsResult] returned by execute_analytics
    result,           \* Optional[dict] returned by dispatch
    calls,            \* collaborator calls issued so far in the turn, in order
    context,          \* ConversationContext held by the running code
    stored,           \* Optional row of table conversation_context
    update_log,       \* asset lists passed to update_context_from_result so far
    turn_log,         \* steps the chat handler has taken in the current turn
    response,         \* Optional ChatResponse of the current turn
    turns,            \* number of chat turns started
    frames,           \* dict symbol -> closes handed to a calculator
    rank_args,        \* Optional Operations handed to the rank branch
    calculated,       \* Optional value returned by the calculator
    store_log,        \* outcomes of the context load and save of the turn
    table,            \* table conversation_context: id -> Optional context
    handlers,         \* the chat handlers running side by side (locals)
    saves             \* successful context saves so far, in order

vars == <<pc, user_assets, user_tickers, market, groq_client, raw_response,
          classified, router_output,
          requested, allow_external, resolved, ref_text, analytics_result,
          result,
          calls, context, stored, update_log, turn_log, response, turns,
          frames, rank_args, calculated, store_log, table, handlers, saves>>

----------------------------------------------------------------------------
(* Bounds of the model *)

MaxAssets == 2        \* longest asset list of a classified intent
MaxHoldings == 2      \* most rows in the user's assets table
MaxUpdates == 2       \* most update_context_from_result calls in a run
MaxTurns == 2         \* most chat turns in a run
MaxRows == 3          \* most rows of a frame handed to calculate_trend
MaxRankN == 3         \* largest rank_n given to the rank branch

----------------------------------------------------------------------------
(* Strings *)

None == <<>>

Some(v) == <<v>>

\* Python truthiness of an Optional[str] / Optional[list]: None and the empty
\* value are both falsy
Truthy(opt) == opt # <<>> /\ opt[1] # <<>>

AAPL == <<"A", "A", "P", "L">>
aapl == <<"a", "a", "p", "l">>
MSFT == <<"M", "S", "F", "T">>
TSLA == <<"T", "S", "L", "A">>
tsla_sp == <<" ", "t", "s", "l", "a">>
BTC == <<"B", "T", "C">>
BTC_USD == <<"B", "T", "C", "-", "U", "S", "D">>
GOLD == <<"G", "O", "L", "D">>
GC_F == <<"G", "C", "=", "F">>
GLD == <<"G", "L", "D">>
ALL == <<"_", "_", "A", "L", "L", "_", "_">>

Lower == <<"a", "b", "c", "d", "e", "f", "g", "h", "i", "j", "k", "l", "m",
           "n", "o", "p", "q", "r", "s", "t", "u", "v", "w", "x", "y", "z">>

Capital == <<"A", "B", "C", "D", "E", "F", "G", "H", "I", "J", "K", "L", "M",
             "N", "O", "P", "Q", "R", "S", "T", "U", "V", "W", "X", "Y", "Z">>

Whitespace == {" ", "\t", "\n"}

\* str.upper() on the letters a..z
UpperTable ==
    [c \in {Lower[i] : i \in 1..Len(Lower)} |->
        Capital[CHOOSE i \in 1..Len(Lower) : Lower[i] = c]]

\* str.upper() on one character
UpperChar(c) == IF c \in DOMAIN UpperTable THEN UpperTable[c] ELSE c

\* str.lower() on the letters A..Z
LowerTable ==
    [c \in {Capital[i] : i \in 1..Len(Capital)} |->
        Lower[CHOOSE i \in 1..Len(Capital) : Capital[i] = c]]

\* str.lower()
LowerStr(s) ==
    [i \in 1..Len(s) |-> IF s[i] \in DOMAIN LowerTable THEN LowerTable[s[i]]
                          ELSE s[i]]

\* needle in haystack, for strings
IsSubstring(needle, haystack) ==
    \E i \in 0..(Len(haystack) - Len(needle)) :
        SubSeq(haystack, i + 1, i + Len(needle)) = needle

\* str.upper()
Upper(s) == [i \in 1..Len(s) |-> UpperChar(s[i])]

\* str.strip()
Strip(s) ==
    LET keep == {i \in 1..Len(s) : s[i] \notin Whitespace}
    IN  IF keep = {} THEN <<>>
        ELSE LET lo == CHOOSE i \in keep : \A j \in keep : i <= j
                 hi == CHOOSE i \in keep : \A j \in keep : j <= i
             IN  SubSeq(s, lo, hi)

\* x in list
Contains(list, x) == \E i \in 1..Len(list) : list[i] = x

\* [f(x) for x in list]
Map(f(_), list) == [i \in 1..Len(list) |-> f(list[i])]

\* [x for x in list if p(x)]
RECURSIVE Filter(_, _)
Filter(p(_), list) ==
    IF list = <<>> THEN <<>>
    ELSE IF p(Head(list)) THEN <<Head(list)>> \o Filter(p, Tail(list))
         ELSE Filter(p, Tail(list))

\* sep.join(list) for a list of strings
RECURSIVE Join(_, _)
Join(list, sep) ==
    IF list = <<>> THEN <<>>
    ELSE IF Len(list) = 1 THEN list[1]
         ELSE list[1] \o sep \o Join(Tail(list), sep)

\* all sequences over S of length 0..n
SeqUpTo(S, n) == UNION {[1..k -> S] : k \in 0..n}

----------------------------------------------------------------------------
(* models/schemas.py *)

RelativeMonth == [type |-> "relative", value |-> 1, unit |-> "months"]

RelativeWeek == [type |-> "relative", value |-> 2, unit |-> "weeks"]

\* RouterAIOutput with the fields the core reads
RouterAIOutput(pipeline, task, assets, reference, needs, missing, prompt) ==
    [intent |-> [pipeline |-> pipeline, task |-> task],
     entities |-> [assets |-> assets, time_range |-> RelativeMonth,
                   reference |-> reference],
     operations |-> [direction |-> None, rank_n |-> None],
     visualization |-> [type |-> "line_chart"],
     confidence |-> [needs_clarification |-> needs,
                     missing_fields |-> missing,
                     clarification_prompt |-> prompt]]

\* ConversationContext()
EmptyContext ==
    [active_assets |-> <<>>, active_time_range |-> None,
     last_operation |-> None, last_results |-> None,
     mentioned_assets_history |-> <<>>]

\* Asset row (fields the core reads)
Asset(symbol, quantity, avg_buy_price) ==
    [symbol |-> symbol, quantity |-> quantity, avg_buy_price |-> avg_buy_price]

----------------------------------------------------------------------------
(* pipelines/analytics/market_data.py *)

\* the entries of ASSET_SYMBOL_MAP for the friendly names used in the model
ASSET_SYMBOL_MAP == (BTC :> BTC_USD) @@ (GOLD :> GC_F) @@ (GLD :> GLD)

normalize_symbol(symbol) ==
    LET upper == Strip(Upper(symbol))
    IN  IF upper \in DOMAIN ASSET_SYMBOL_MAP THEN ASSET_SYMBOL_MAP[upper]
        ELSE upper

----------------------------------------------------------------------------
(* services/router_ai.py *)

ClarifyAssetsPrompt(invalid_assets, tickers) ==
    <<"I couldn't find ">> \o Join(invalid_assets, <<", ">>)
        \o <<" in your portfolio. Your stocks are: ">>
        \o Join(tickers, <<", ">>)

\* validate_router_output without the upper-casing of the accepted assets
validate_router_output_no_upper(output, tickers) ==
    IF output.confidence.needs_clarification THEN output
    ELSE IF output.entities.assets # <<>>
            /\ ~Contains(output.entities.assets, ALL)
    THEN LET known(asset) == Contains(Map(Upper, tickers), Upper(asset))
             unknown(asset) == ~known(asset)
             valid_assets == Filter(known, output.entities.assets)
             invalid_assets == Filter(unknown, output.entities.assets)
         IN  IF invalid_assets # <<>> /\ valid_assets = <<>>
             THEN [output EXCEPT
                     !.confidence.needs_clarification = TRUE,
                     !.confidence.clarification_prompt =
                         Some(ClarifyAssetsPrompt(invalid_assets, tickers)),
                     !.confidence.missing_fields = <<"assets">>]
             ELSE IF valid_assets # <<>>
                  THEN [output EXCEPT !.entities.assets = valid_assets]
                  ELSE output
    ELSE output

\* validate_router_output that keeps the unmatched assets next to the
\* matched ones
validate_router_output_keeps_invalid(output, tickers) ==
    IF output.confidence.needs_clarification THEN output
    ELSE IF output.entities.assets # <<>>
            /\ ~Contains(output.entities.assets, ALL)
    THEN LET known(asset) == Contains(Map(Upper, tickers), Upper(asset))
             unknown(asset) == ~known(asset)
             valid_assets == Map(Upper, Filter(known, output.entities.assets))
             invalid_assets == Filter(unknown, output.entities.assets)
         IN  IF invalid_assets # <<>> /\ valid_assets = <<>>
             THEN [output EXCEPT
                     !.confidence.needs_clarification = TRUE,
                     !.confidence.clarification_prompt =
                         Some(ClarifyAssetsPrompt(invalid_assets, tickers)),
                     !.confidence.missing_fields = <<"assets">>]
             ELSE IF valid_assets # <<>>
                  THEN [output EXCEPT
                          !.entities.assets = valid_assets \o invalid_assets]
                  ELSE output
    ELSE output

\* validate_router_output appending to missing_fields instead of replacing it
validate_router_output_appends_missing(output, tickers) ==
    IF output.confidence.needs_clarification THEN output
    ELSE IF output.entities.assets # <<>>
            /\ ~Contains(output.entities.assets, ALL)
    THEN LET known(asset) == Contains(Map(Upper, tickers), Upper(asset))
             unknown(asset) == ~known(asset)
             valid_assets == Map(Upper, Filter(known, output.entities.assets))
             invalid_assets == Filter(unknown, output.entities.assets)
         IN  IF invalid_assets # <<>> /\ valid_assets = <<>>
             THEN [output EXCEPT
                     !.confidence.needs_clarification = TRUE,
                     !.confidence.clarification_prompt =
                         Some(ClarifyAssetsPrompt(invalid_assets, tickers)),
                     !.confidence.missing_fields = @ \o <<"assets">>]
             ELSE IF valid_assets # <<>>
                  THEN [output EXCEPT !.entities.assets = valid_assets]
                  ELSE output
    ELSE output

validate_router_output(output, tickers) ==
    IF output.confidence.needs_clarification THEN output
    ELSE IF output.entities.assets # <<>>
            /\ ~Contains(output.entities.assets, ALL)
    THEN LET known(asset) == Contains(Map(Upper, tickers), Upper(asset))
             unknown(asset) == ~known(asset)
             valid_assets == Map(Upper, Filter(known, output.entities.assets))
             invalid_assets == Filter(unknown, output.entities.assets)
         IN  IF invalid_assets # <<>> /\ valid_assets = <<>>
             THEN [output EXCEPT
                     !.confidence.needs_clarification = TRUE,
                     !.confidence.clarification_prompt =
                         Some(ClarifyAssetsPrompt(invalid_assets, tickers)),
                     !.confidence.missing_fields = <<"assets">>]
             ELSE IF valid_assets # <<>>
                  THEN [output EXCEPT !.entities.assets = valid_assets]
                  ELSE output
    ELSE output

----------------------------------------------------------------------------
(* services/groq_client.py and services/router_ai.py: the classifier's     *)
(* response and its parsing.  A JSON value is a record tagged with its     *)
(* type; a JSON string is the sequence of its characters or pieces.        *)

JNull == [t |-> "null"]

JObj(fields) == [t |-> "obj", fields |-> fields]

JArr(items) == [t |-> "arr", items |-> items]

JStr(chars) == [t |-> "str", chars |-> chars]

JNum(n) == [t |-> "num", n |-> n]

JBool(b) == [t |-> "bool", b |-> b]

\* not x, for a JSON value x
Falsy(x) ==
    \/ x.t = "null"
    \/ x.t = "obj" /\ DOMAIN x.fields = {}
    \/ x.t = "arr" /\ x.items = <<>>
    \/ x.t = "str" /\ x.chars = <<>>
    \/ x.t = "num" /\ x.n = 0
    \/ x.t = "bool" /\ ~x.b

\* obj.get(key, default), for a dict obj
Get(obj, key, default) ==
    IF key \in DOMAIN obj.fields THEN obj.fields[key] ELSE default

\* "or" that keeps a falsy left operand
OrElse_keeps(x, default) == x

\* x or default
OrElse(x, default) == IF Falsy(x) THEN default ELSE x

\* a completion has no content, or is a text with an optional markdown
\* fence (prefix, suffix) around a body; the fences are cut off and
\* json.loads accepts the body (kind "json", with the value it denotes) or
\* rejects it (kind "garbage")
parse_json_response(completion) ==
    IF completion.body.kind = "json"
    THEN [ok |-> TRUE, data |-> completion.body.value]
    ELSE [ok |-> FALSE]

Pipelines ==
    {<<"analytics">>, <<"rag">>, <<"clarification">>, <<"forecasting">>}

Tasks ==
    {<<"trend">>, <<"rank">>, <<"change">>, <<"comparison">>, <<"pnl">>,
     <<"volatility">>, <<"drawdown">>, <<"allocation">>,
     <<"general_question">>, <<"forecast">>}

Units == {<<"days">>, <<"weeks">>, <<"months">>, <<"years">>}

\* pydantic accepts the value for a field of the given type
IsStr(x) == x.t = "str"

IsOptionalStr(x) == x.t \in {"null", "str"}

IsOptionalInt(x) == x.t \in {"null", "num"}

IsLiteral(x, values) == x.t = "str" /\ x.chars \in values

IsStrList(x) ==
    x.t = "arr" /\ \A i \in 1..Len(x.items) : x.items[i].t = "str"

\* Optional[str] and Optional[int] field values
OptionalStr(x) == IF x.t = "null" THEN None ELSE Some(x.chars)

OptionalInt(x) == IF x.t = "null" THEN None ELSE Some(x.n)

DefaultOutput(prompt) ==
    RouterAIOutput("analytics", "trend", <<>>, None, TRUE, <<>>,
                   Some(<<prompt>>))

\* the body of the try block of parse_router_response: the output, or
\* raised = TRUE when one of its statements raises
parse_fields(data) ==
    LET empty == JObj(<<>>)
        intent_data == Get(data, "intent", empty)
        entities_data == Get(data, "entities", empty)
        time_range_data == OrElse(Get(entities_data, "time_range", empty),
                                  empty)
        operations_data == Get(data, "operations", empty)
        visualization_data == Get(data, "visualization", empty)
        confidence_data == Get(data, "confidence", empty)
        type_given == Get(time_range_data, "type", JNull)
        tr_type == IF IsLiteral(type_given, {<<"relative">>, <<"absolute">>})
                   THEN type_given ELSE JStr(<<"relative">>)
        value == OrElse(Get(time_range_data, "value", JNull), JNum(1))
        unit == OrElse(Get(time_range_data, "unit", JNull),
                       JStr(<<"months">>))
        pipeline == OrElse(Get(intent_data, "pipeline", JNull),
                           JStr(<<"analytics">>))
        task == OrElse(Get(intent_data, "task", JNull),
                       JStr(<<"allocation">>))
        assets == OrElse(Get(entities_data, "assets", JNull),
                         JArr(<<JStr(ALL)>>))
        reference == Get(entities_data, "reference", JNull)
        direction == Get(operations_data, "direction", JNull)
        rank_n == Get(operations_data, "rank_n", JNull)
        vis_type == OrElse(Get(visualization_data, "type", JNull),
                           JStr(<<"table">>))
        needs == Get(confidence_data, "needs_clarification", JBool(FALSE))
        missing == OrElse(Get(confidence_data, "missing_fields", JNull),
                          JArr(<<>>))
        prompt == Get(confidence_data, "clarification_prompt", JNull)
        raised ==
            \/ data.t # "obj"
            \/ intent_data.t # "obj"
            \/ entities_data.t # "obj"
            \/ time_range_data.t # "obj"
            \/ operations_data.t # "obj"
            \/ visualization_data.t # "obj"
            \/ confidence_data.t # "obj"
            \/ value.t # "num"
            \/ ~IsLiteral(unit, Units)
            \/ ~IsLiteral(pipeline, Pipelines)
            \/ ~IsLiteral(task, Tasks)
            \/ ~IsStrList(assets)
            \/ ~IsOptionalStr(reference)
            \/ ~(direction.t = "null"
                 \/ IsLiteral(direction, {<<"top">>, <<"bottom">>}))
            \/ ~IsOptionalInt(rank_n)
            \/ ~IsLiteral(vis_type, {<<"line_chart">>, <<"bar_chart">>,
                              <<"table">>, <<"pie_chart">>, <<"none">>})
            \/ needs.t # "bool"
            \/ ~IsStrList(missing)
            \/ ~IsOptionalStr(prompt)
    IN  IF raised THEN [raised |-> TRUE]
        ELSE [raised |-> FALSE,
              output |->
                [RouterAIOutput(pipeline.chars[1], task.chars[1],
                     [i \in 1..Len(assets.items) |-> assets.items[i].chars],
                     OptionalStr(reference), needs.b,
                     [i \in 1..Len(missing.items) |->
                         missing.items[i].chars[1]],
                     OptionalStr(prompt))
                 EXCEPT !.entities.time_range =
                            [type |-> tr_type.chars[1], value |-> value.n,
                             unit |-> unit.chars[1]],
                        !.operations =
                            [direction |-> IF direction.t = "null" THEN None
                                           ELSE Some(direction.chars[1]),
                             rank_n |-> OptionalInt(rank_n)],
                        !.visualization.type = vis_type.chars[1]]]

\* parse_router_response: the output, or raised = TRUE when the statement
\* before the try block raises (response[:500] of a None content)
parse_router_response(completion) ==
    IF completion.content = "none" THEN [raised |-> TRUE]
    ELSE LET parsed == parse_json_response(completion)
         IN  IF ~parsed.ok
             THEN [raised |-> FALSE,
                   output |-> DefaultOutput(
                       "I couldn't understand your request. Could you please rephrase?")]
             ELSE LET fields == parse_fields(parsed.data)
                  IN  IF fields.raised
                      THEN [raised |-> FALSE,
                            output |-> DefaultOutput(
                                "Something went wrong. Please try again.")]
                      ELSE fields

\* classify_intent that answers a failed call with the default intent as it
\* is, without asking for clarification
classify_intent_silent(client, completion) ==
    IF client = "unavailable"
    THEN DefaultOutput(
             "AI service is not available. Please check configuration.")
    ELSE IF client = "error" \/ parse_router_response(completion).raised
    THEN RouterAIOutput("analytics", "trend", <<>>, None, FALSE, <<>>, None)
    ELSE parse_router_response(completion).output

\* classify_intent, for a client that is unavailable, whose call raises
\* ("error") or returns a response ("ok")
classify_intent(client, completion) ==
    IF client = "unavailable"
    THEN DefaultOutput(
             "AI service is not available. Please check configuration.")
    ELSE IF client = "error" \/ parse_router_response(completion).raised
    THEN DefaultOutput("AI service encountered an error. Please try again.")
    ELSE parse_router_response(completion).output

----------------------------------------------------------------------------
(* pipelines/analytics/executor.py *)

Symbols(assets) == [i \in 1..Len(assets) |-> assets[i].symbol]

\* resolve_assets that treats only "__ALL__", not the empty request, as "all"
resolve_assets_empty_not_all(requested_assets, assets, allow) ==
    LET tickers == Map(Upper, Symbols(assets))
        held(t) == Contains(tickers, Upper(t))
    IN  IF Contains(requested_assets, ALL)
        THEN <<tickers, FALSE>>
        ELSE LET normalized == Map(normalize_symbol, requested_assets)
                 portfolio_assets == Filter(held, normalized)
             IN  IF portfolio_assets # <<>> THEN <<portfolio_assets, FALSE>>
                 ELSE IF allow /\ normalized # <<>> THEN <<normalized, TRUE>>
                 ELSE <<<<>>, FALSE>>

\* resolve_assets that tries the external interpretation before the portfolio
resolve_assets_external_first(requested_assets, assets, allow) ==
    LET tickers == Map(Upper, Symbols(assets))
        held(t) == Contains(tickers, Upper(t))
    IN  IF Contains(requested_assets, ALL) \/ requested_assets = <<>>
        THEN <<tickers, FALSE>>
        ELSE LET normalized == Map(normalize_symbol, requested_assets)
                 portfolio_assets == Filter(held, normalized)
             IN  IF allow /\ normalized # <<>> THEN <<normalized, TRUE>>
                 ELSE IF portfolio_assets # <<>>
                      THEN <<portfolio_assets, FALSE>>
                      ELSE <<<<>>, FALSE>>

resolve_assets(requested_assets, assets, allow) ==
    LET tickers == Map(Upper, Symbols(assets))
        held(t) == Contains(tickers, Upper(t))
    IN  IF Contains(requested_assets, ALL) \/ requested_assets = <<>>
        THEN <<tickers, FALSE>>
        ELSE LET normalized == Map(normalize_symbol, requested_assets)
                 portfolio_assets == Filter(held, normalized)
             IN  IF portfolio_assets # <<>> THEN <<portfolio_assets, FALSE>>
                 ELSE IF allow /\ normalized # <<>> THEN <<normalized, TRUE>>
                 ELSE <<<<>>, FALSE>>

----------------------------------------------------------------------------
(* Python dicts: a sequence of <<key, value>> pairs in insertion order *)

DictKeys(d) == [i \in 1..Len(d) |-> d[i][1]]

DictHas(d, k) == \E i \in 1..Len(d) : d[i][1] = k

DictGet(d, k) == d[CHOOSE i \in 1..Len(d) : d[i][1] = k][2]

\* d[k] = v
DictPut(d, k, v) ==
    IF DictHas(d, k)
    THEN [i \in 1..Len(d) |-> IF d[i][1] = k THEN <<k, v>> ELSE d[i]]
    ELSE Append(d, <<k, v>>)

----------------------------------------------------------------------------
(* pipelines/analytics/market_data.py: the yfinance collaborator *)

\* symbols yfinance may be asked about
MarketSymbols == {AAPL, MSFT, TSLA}

\* per symbol: "error" (the request raises), "empty" (no rows, no price) or
\* "ok"
MarketStates == {"error", "empty", "ok"}

\* the Close column yfinance serves for a symbol that is "ok"
History(symbol) ==
    IF symbol = AAPL THEN <<100, 110>>
    ELSE IF symbol = MSFT THEN <<20, 19>>
    ELSE IF symbol = TSLA THEN <<50>>
    ELSE <<40, 42, 41>>

\* fast_info lastPrice for a symbol that is "ok"
LastPrice(symbol) == History(symbol)[Len(History(symbol))]

Call(fn, symbol) == [fn |-> fn, symbol |-> symbol]

\* Optional[DataFrame]: None when the request raises or the frame is empty
fetch_stock_data(m, symbol) ==
    IF symbol \in DOMAIN m /\ m[symbol] = "ok" /\ History(symbol) # <<>>
    THEN Some(History(symbol))
    ELSE None

\* fetch_multiple_stocks that gives up at the first symbol without data
RECURSIVE fetch_multiple_stocks_stops(_, _)
fetch_multiple_stocks_stops(m, symbols) ==
    IF symbols = <<>> THEN <<>>
    ELSE LET df == fetch_stock_data(m, symbols[1])
         IN  IF df = None THEN <<>>
             ELSE LET rest == fetch_multiple_stocks_stops(m, Tail(symbols))
                  IN  IF DictHas(rest, symbols[1]) THEN rest
                      ELSE <<<<symbols[1], df[1]>>>> \o rest

RECURSIVE fetch_multiple_stocks(_, _)
fetch_multiple_stocks(m, symbols) ==
    IF symbols = <<>> THEN <<>>
    ELSE LET rest == fetch_multiple_stocks(m, SubSeq(symbols, 1, Len(symbols) - 1))
             symbol == symbols[Len(symbols)]
             df == fetch_stock_data(m, symbol)
         IN  IF df # None THEN DictPut(rest, symbol, df[1]) ELSE rest

\* the fetch_stock_data calls fetch_multiple_stocks issues
fetch_calls(symbols) ==
    [i \in 1..Len(symbols) |-> Call("fetch_stock_data", symbols[i])]

get_current_price(m, symbol) ==
    IF symbol \in DOMAIN m /\ m[symbol] = "ok" THEN Some(LastPrice(symbol))
    ELSE None

RECURSIVE get_current_prices(_, _)
get_current_prices(m, symbols) ==
    IF symbols = <<>> THEN <<>>
    ELSE LET rest == get_current_prices(m, SubSeq(symbols, 1, Len(symbols) - 1))
             symbol == symbols[Len(symbols)]
             price == get_current_price(m, symbol)
         IN  IF price # None THEN DictPut(rest, symbol, price[1]) ELSE rest

price_calls(symbols) ==
    [i \in 1..Len(symbols) |-> Call("get_current_price", symbols[i])]

----------------------------------------------------------------------------
(* pipelines/analytics/calculators.py                                      *)
(* Prices are integers; a value rounded to 2 decimals is an integer number *)
(* of hundredths.                                                          *)

\* quantities are integers in thousandths of a unit (Asset.quantity is a
\* float), so quantity * price is a number of thousandths
Thousand == 1000

\* round(num / den, 2) in hundredths, den > 0, ties to even
Round2(num, den) ==
    LET n == (num % den) * 100
        q == (num \div den) * 100 + (n \div den)
        r == n % den
    IN  IF 2 * r > den THEN q + 1
        ELSE IF 2 * r < den THEN q
        ELSE IF q % 2 = 0 THEN q ELSE q + 1

\* calculate_trend that takes the direction from the rounded percent change
calculate_trend_rounded(df, symbol) ==
    IF Len(df) < 2
    THEN [symbol |-> symbol, start_price |-> 0, end_price |-> 0,
          change_absolute |-> 0, change_percent |-> 0,
          trend_direction |-> "flat", data_points |-> <<>>]
    ELSE LET start_price == df[1]
             end_price == df[Len(df)]
             change_absolute == end_price - start_price
             change_percent ==
                 IF start_price # 0
                 THEN Round2(change_absolute * 100, start_price) ELSE 0
         IN  [symbol |-> symbol,
              start_price |-> start_price * 100,
              end_price |-> end_price * 100,
              change_absolute |-> change_absolute * 100,
              change_percent |-> change_percent,
              trend_direction |->
                  IF change_percent > 100 THEN "up"
                  ELSE IF change_percent < 0 - 100 THEN "down" ELSE "flat",
              data_points |-> df]

calculate_trend(df, symbol) ==
    IF Len(df) < 2
    THEN [symbol |-> symbol, start_price |-> 0, end_price |-> 0,
          change_absolute |-> 0, change_percent |-> 0,
          trend_direction |-> "flat", data_points |-> <<>>]
    ELSE LET start_price == df[1]
             end_price == df[Len(df)]
             change_absolute == end_price - start_price
         IN  [symbol |-> symbol,
              start_price |-> start_price * 100,
              end_price |-> end_price * 100,
              change_absolute |-> change_absolute * 100,
              change_percent |->
                  IF start_price # 0
                  THEN Round2(change_absolute * 100, start_price) ELSE 0,
              trend_direction |->
                  IF start_price # 0 /\ change_absolute * 100 > start_price
                  THEN "up"
                  ELSE IF start_price # 0
                          /\ change_absolute * 100 < 0 - start_price
                       THEN "down" ELSE "flat",
              data_points |-> df]

calculate_percentage_change(df) ==
    IF Len(df) < 2 THEN [change_percent |-> 0, start |-> 0, end |-> 0]
    ELSE [change_percent |->
              IF df[1] # 0 THEN Round2((df[Len(df)] - df[1]) * 100, df[1])
              ELSE 0,
          start |-> df[1] * 100, end |-> df[Len(df)] * 100]

\* calculate_absolute_change that treats only the empty frame as degenerate
calculate_absolute_change_one_row(df) ==
    IF Len(df) < 1 THEN [change_absolute |-> 0, start |-> 0, end |-> 0]
    ELSE [change_absolute |-> (df[Len(df)] - df[1]) * 100,
          start |-> df[1] * 100, end |-> df[Len(df)] * 100]

calculate_absolute_change(df) ==
    IF Len(df) < 2 THEN [change_absolute |-> 0, start |-> 0, end |-> 0]
    ELSE [change_absolute |-> (df[Len(df)] - df[1]) * 100,
          start |-> df[1] * 100, end |-> df[Len(df)] * 100]

\* the annualized standard deviation of the returns of df is left
\* unevaluated: the result records the frame it is computed from
calculate_volatility(df) ==
    IF Len(df) < 2 THEN [zero |-> TRUE, returns_of |-> <<>>]
    ELSE [zero |-> FALSE, returns_of |-> df]

\* largest close of df[1..i]
RECURSIVE cummax(_, _)
cummax(df, i) ==
    IF i = 1 THEN df[1]
    ELSE IF df[i] > cummax(df, i - 1) THEN df[i] ELSE cummax(df, i - 1)

\* max drawdown over a frame of positive closes
calculate_drawdown(df) ==
    IF Len(df) < 2 THEN [max_drawdown_percent |-> 0, peak |-> 0, trough |-> 0]
    ELSE LET worse(i, j) ==  \* drawdown at i is deeper than at j
                 (df[i] - cummax(df, i)) * cummax(df, j)
                     < (df[j] - cummax(df, j)) * cummax(df, i)
             max_dd_idx == CHOOSE i \in 1..Len(df) :
                 /\ \A j \in 1..Len(df) : ~worse(j, i)
                 /\ \A j \in 1..(i - 1) : worse(i, j)
         IN  [max_drawdown_percent |->
                  0 - Round2((cummax(df, max_dd_idx) - df[max_dd_idx]) * 100,
                             cummax(df, max_dd_idx)),
              peak |-> cummax(df, max_dd_idx) * 100,
              trough |-> df[max_dd_idx] * 100]

compare_assets(dfs) ==
    [assets |->
        [i \in 1..Len(dfs) |->
            LET trend == calculate_trend(dfs[i][2], dfs[i][1])
            IN  [symbol |-> dfs[i][1],
                 start_price |-> trend.start_price,
                 end_price |-> trend.end_price,
                 change_percent |-> trend.change_percent,
                 trend_direction |-> trend.trend_direction,
                 volatility |-> calculate_volatility(dfs[i][2]),
                 max_drawdown |->
                     calculate_drawdown(dfs[i][2]).max_drawdown_percent]],
     count |-> Len(dfs)]

generate_chart_data(dfs, chart_type) ==
    IF chart_type = "line_chart"
    THEN [type |-> "line_chart",
          series |-> [i \in 1..Len(dfs) |->
                         [name |-> dfs[i][1], data |-> dfs[i][2]]]]
    ELSE [type |-> "bar_chart",
          labels |-> DictKeys(dfs),
          values |-> [i \in 1..Len(dfs) |->
                         calculate_percentage_change(dfs[i][2]).change_percent]]

\* list.sort(key, reverse) on <<key, item>> pairs: stable, equal keys keep
\* their order also when reverse is set
RECURSIVE sort_pairs(_, _)
sort_pairs(pairs, reverse) ==
    IF pairs = <<>> THEN <<>>
    ELSE LET sorted == sort_pairs(SubSeq(pairs, 1, Len(pairs) - 1), reverse)
             x == pairs[Len(pairs)]
             before(i) == IF reverse THEN x[1] > sorted[i][1]
                          ELSE x[1] < sorted[i][1]
             pos == IF \E i \in 1..Len(sorted) : before(i)
                    THEN CHOOSE i \in 1..Len(sorted) :
                             before(i) /\ \A j \in 1..(i - 1) : ~before(j)
                    ELSE Len(sorted) + 1
         IN  SubSeq(sorted, 1, pos - 1) \o <<x>>
                 \o SubSeq(sorted, pos, Len(sorted))

\* rank_by_performance without the sort
rank_by_performance_unsorted(dfs, direction, n) ==
    LET usable == {i \in 1..Len(dfs) : Len(dfs[i][2]) >= 2}
        performances ==
            [k \in 1..Cardinality(usable) |->
                LET i == CHOOSE i \in usable :
                             Cardinality({j \in usable : j <= i}) = k
                    change == calculate_percentage_change(dfs[i][2])
                IN  <<change.change_percent,
                      [symbol |-> dfs[i][1],
                       change_percent |-> change.change_percent,
                       start_price |-> change.start,
                       end_price |-> change.end]>>]
        top_n == SubSeq(performances, 1,
                        IF n < Len(performances) THEN n ELSE Len(performances))
    IN  [rankings |->
             [i \in 1..Len(top_n) |->
                 [symbol |-> top_n[i][2].symbol,
                  change_percent |-> top_n[i][2].change_percent,
                  start_price |-> top_n[i][2].start_price,
                  end_price |-> top_n[i][2].end_price,
                  rank |-> i]],
         direction |-> direction,
         metric |-> "change_percent"]

rank_by_performance(dfs, direction, n) ==
    LET usable == {i \in 1..Len(dfs) : Len(dfs[i][2]) >= 2}
        performances ==
            [k \in 1..Cardinality(usable) |->
                LET i == CHOOSE i \in usable :
                             Cardinality({j \in usable : j <= i}) = k
                    change == calculate_percentage_change(dfs[i][2])
                IN  <<change.change_percent,
                      [symbol |-> dfs[i][1],
                       change_percent |-> change.change_percent,
                       start_price |-> change.start,
                       end_price |-> change.end]>>]
        sorted == sort_pairs(performances, direction = "top")
        top_n == SubSeq(sorted, 1, IF n < Len(sorted) THEN n ELSE Len(sorted))
    IN  [rankings |->
             [i \in 1..Len(top_n) |->
                 [symbol |-> top_n[i][2].symbol,
                  change_percent |-> top_n[i][2].change_percent,
                  start_price |-> top_n[i][2].start_price,
                  end_price |-> top_n[i][2].end_price,
                  rank |-> i]],
         direction |-> direction,
         metric |-> "change_percent"]

RECURSIVE calculate_unrealized_pnl(_, _)
calculate_unrealized_pnl(holdings, current_prices) ==
    IF holdings = <<>> THEN <<>>
    ELSE LET results == calculate_unrealized_pnl(
                            SubSeq(holdings, 1, Len(holdings) - 1),
                            current_prices)
             asset == holdings[Len(holdings)]
         IN  IF ~DictHas(current_prices, asset.symbol) THEN results
             ELSE LET current_price == DictGet(current_prices, asset.symbol)
                      cost_basis == asset.quantity * asset.avg_buy_price
                      current_value == asset.quantity * current_price
                      unrealized_pnl == current_value - cost_basis
                  IN  DictPut(results, asset.symbol,
                        [symbol |-> asset.symbol,
                         quantity |-> asset.quantity,
                         avg_buy_price |-> asset.avg_buy_price * 100,
                         current_price |-> current_price * 100,
                         cost_basis |-> Round2(cost_basis, Thousand),
                         current_value |-> Round2(current_value, Thousand),
                         unrealized_pnl |-> Round2(unrealized_pnl, Thousand),
                         pnl_percent |->
                             IF cost_basis # 0
                             THEN Round2(unrealized_pnl * 100, cost_basis)
                             ELSE 0])

RECURSIVE sum_field(_, _)
sum_field(pnl_results, cost) ==
    IF pnl_results = <<>> THEN 0
    ELSE (IF cost THEN pnl_results[1][2].cost_basis
          ELSE pnl_results[1][2].current_value)
         + sum_field(Tail(pnl_results), cost)

calculate_total_pnl(pnl_results) ==
    LET total_cost_basis == sum_field(pnl_results, TRUE)
        total_current_value == sum_field(pnl_results, FALSE)
        total_pnl == total_current_value - total_cost_basis
    IN  [total_cost_basis |-> total_cost_basis,
         total_current_value |-> total_current_value,
         total_unrealized_pnl |-> total_pnl,
         total_pnl_percent |->
             IF total_cost_basis # 0
             THEN Round2(total_pnl * 100, total_cost_basis) ELSE 0,
         positions |-> Len(pnl_results)]

RECURSIVE total_value_of(_, _)
total_value_of(holdings, current_prices) ==
    IF holdings = <<>> THEN 0
    ELSE (IF DictHas(current_prices, holdings[1].symbol)
          THEN holdings[1].quantity * DictGet(current_prices, holdings[1].symbol)
          ELSE 0)
         + total_value_of(Tail(holdings), current_prices)

\* calculate_allocation that sorts by percentage ascending
calculate_allocation_ascending(holdings, current_prices) ==
    LET priced == {i \in 1..Len(holdings) :
                      DictHas(current_prices, holdings[i].symbol)}
        total_value == total_value_of(holdings, current_prices)
        allocations ==
            [k \in 1..Cardinality(priced) |->
                LET i == CHOOSE i \in priced :
                             Cardinality({j \in priced : j <= i}) = k
                    value == holdings[i].quantity
                                 * DictGet(current_prices, holdings[i].symbol)
                    percentage == IF total_value > 0
                                  THEN Round2(value * 100, total_value) ELSE 0
                IN  <<percentage,
                      [symbol |-> holdings[i].symbol,
                       value |-> Round2(value, Thousand),
                       quantity |-> holdings[i].quantity,
                       percentage |-> percentage]>>]
        sorted == sort_pairs(allocations, FALSE)
    IN  [allocations |-> [i \in 1..Len(sorted) |-> sorted[i][2]],
         total_value |-> Round2(total_value, Thousand)]

calculate_allocation(holdings, current_prices) ==
    LET priced == {i \in 1..Len(holdings) :
                      DictHas(current_prices, holdings[i].symbol)}
        total_value == total_value_of(holdings, current_prices)
        allocations ==
            [k \in 1..Cardinality(priced) |->
                LET i == CHOOSE i \in priced :
                             Cardinality({j \in priced : j <= i}) = k
                    value == holdings[i].quantity
                                 * DictGet(current_prices, holdings[i].symbol)
                    percentage == IF total_value > 0
                                  THEN Round2(value * 100, total_value) ELSE 0
                IN  <<percentage,
                      [symbol |-> holdings[i].symbol,
                       value |-> Round2(value, Thousand),
                       quantity |-> holdings[i].quantity,
                       percentage |-> percentage]>>]
        sorted == sort_pairs(allocations, TRUE)
    IN  [allocations |-> [i \in 1..Len(sorted) |-> sorted[i][2]],
         total_value |-> Round2(total_value, Thousand)]

----------------------------------------------------------------------------
(* pipelines/analytics/executor.py: the task executor.  Every operator     *)
(* returns the AnalyticsResult together with the market-data calls it made *)

AnalyticsResult(task, success, data, chart_data, error) ==
    [task |-> task, success |-> success, data |-> data,
     chart_data |-> chart_data, error |-> error]

Failure(task, message) ==
    AnalyticsResult(task, FALSE, <<>>, None, Some(<<message>>))

Outcome(res, made) == [result |-> res, calls |-> made]

\* {symbol: f(df) for symbol, df in dfs.items()}
TrendsOf(dfs) ==
    [i \in 1..Len(dfs) |-> <<dfs[i][1], calculate_trend(dfs[i][2], dfs[i][1])>>]

ChangesOf(dfs) ==
    [i \in 1..Len(dfs) |->
        <<dfs[i][1], [percent |-> calculate_percentage_change(dfs[i][2]),
                      absolute |-> calculate_absolute_change(dfs[i][2])]>>]

VolatilitiesOf(dfs) ==
    [i \in 1..Len(dfs) |-> <<dfs[i][1], calculate_volatility(dfs[i][2])>>]

DrawdownsOf(dfs) ==
    [i \in 1..Len(dfs) |-> <<dfs[i][1], calculate_drawdown(dfs[i][2])>>]

execute_trend(m, symbols) ==
    LET dfs == fetch_multiple_stocks(m, symbols)
    IN  Outcome(IF dfs = <<>>
                THEN Failure("trend", "Could not fetch market data.")
                ELSE AnalyticsResult("trend", TRUE, [trends |-> TrendsOf(dfs)],
                         Some(generate_chart_data(dfs, "line_chart")), None),
                fetch_calls(symbols))

execute_change(m, symbols) ==
    LET dfs == fetch_multiple_stocks(m, symbols)
    IN  Outcome(IF dfs = <<>>
                THEN Failure("change", "Could not fetch market data.")
                ELSE AnalyticsResult("change", TRUE,
                         [changes |-> ChangesOf(dfs)],
                         Some(generate_chart_data(dfs, "bar_chart")), None),
                fetch_calls(symbols))

execute_rank(m, assets, direction, rank_n) ==
    LET symbols == Symbols(assets)
        dfs == fetch_multiple_stocks(m, symbols)
        rank_result == rank_by_performance(dfs, direction, rank_n)
    IN  Outcome(IF dfs = <<>>
                THEN Failure("rank", "Could not fetch market data.")
                ELSE AnalyticsResult("rank", TRUE, [rankings |-> rank_result],
                         Some([type |-> "bar_chart",
                               labels |-> [i \in 1..Len(rank_result.rankings)
                                   |-> rank_result.rankings[i].symbol],
                               values |-> [i \in 1..Len(rank_result.rankings)
                                   |-> rank_result.rankings[i].change_percent]]),
                         None),
                fetch_calls(symbols))

\* _execute_pnl without the filter on the requested symbols
execute_pnl_unfiltered(m, assets, symbols) ==
    LET relevant_assets == assets
        current_prices == get_current_prices(m, Symbols(relevant_assets))
        pnl_results == calculate_unrealized_pnl(relevant_assets, current_prices)
    IN  IF relevant_assets = <<>>
        THEN Outcome(Failure("pnl", "No matching assets found."), <<>>)
        ELSE Outcome(IF current_prices = <<>>
                     THEN Failure("pnl", "Could not fetch current prices.")
                     ELSE AnalyticsResult("pnl", TRUE,
                              [positions |-> pnl_results,
                               total |-> calculate_total_pnl(pnl_results)],
                              Some([type |-> "table", data |-> pnl_results]),
                              None),
                     price_calls(Symbols(relevant_assets)))

execute_pnl(m, assets, symbols) ==
    LET wanted(a) == Contains([i \in 1..Len(symbols) |-> Upper(symbols[i])],
                              Upper(a.symbol))
        relevant_assets == Filter(wanted, assets)
        current_prices == get_current_prices(m, Symbols(relevant_assets))
        pnl_results == calculate_unrealized_pnl(relevant_assets, current_prices)
    IN  IF relevant_assets = <<>>
        THEN Outcome(Failure("pnl", "No matching assets found."), <<>>)
        ELSE Outcome(IF current_prices = <<>>
                     THEN Failure("pnl", "Could not fetch current prices.")
                     ELSE AnalyticsResult("pnl", TRUE,
                              [positions |-> pnl_results,
                               total |-> calculate_total_pnl(pnl_results)],
                              Some([type |-> "table", data |-> pnl_results]),
                              None),
                     price_calls(Symbols(relevant_assets)))

execute_comparison(m, symbols) ==
    LET dfs == fetch_multiple_stocks(m, symbols)
    IN  IF Len(symbols) < 2
        THEN Outcome(Failure("comparison",
                             "Need at least 2 assets to compare."), <<>>)
        ELSE Outcome(IF Len(dfs) < 2
                     THEN Failure("comparison",
                                  "Could not fetch data for comparison.")
                     ELSE AnalyticsResult("comparison", TRUE,
                              [comparison |-> compare_assets(dfs)],
                              Some(generate_chart_data(dfs, "line_chart")),
                              None),
                     fetch_calls(symbols))

execute_volatility(m, symbols) ==
    LET dfs == fetch_multiple_stocks(m, symbols)
        volatilities == VolatilitiesOf(dfs)
    IN  Outcome(IF dfs = <<>>
                THEN Failure("volatility", "Could not fetch market data.")
                ELSE AnalyticsResult("volatility", TRUE,
                         [volatilities |-> volatilities],
                         Some([type |-> "bar_chart",
                               labels |-> DictKeys(volatilities),
                               values |-> [i \in 1..Len(volatilities)
                                              |-> volatilities[i][2]]]),
                         None),
                fetch_calls(symbols))

execute_drawdown(m, symbols) ==
    LET dfs == fetch_multiple_stocks(m, symbols)
    IN  Outcome(IF dfs = <<>>
                THEN Failure("drawdown", "Could not fetch market data.")
                ELSE AnalyticsResult("drawdown", TRUE,
                         [drawdowns |-> DrawdownsOf(dfs)], None, None),
                fetch_calls(symbols))

execute_allocation(m, assets) ==
    LET current_prices == get_current_prices(m, Symbols(assets))
        allocation == calculate_allocation(assets, current_prices)
    IN  IF assets = <<>>
        THEN Outcome(Failure("allocation", "No assets found."), <<>>)
        ELSE Outcome(IF current_prices = <<>>
                     THEN Failure("allocation",
                                  "Could not fetch current prices.")
                     ELSE AnalyticsResult("allocation", TRUE,
                              [allocation |-> allocation],
                              Some([type |-> "pie_chart",
                                    labels |-> [i \in 1..Len(allocation.allocations)
                                        |-> allocation.allocations[i].symbol],
                                    values |-> [i \in 1..Len(allocation.allocations)
                                        |-> allocation.allocations[i].percentage]]),
                              None),
                     price_calls(Symbols(assets)))

PortfolioTasks == {"pnl", "allocation", "rank"}

\* operations.direction or "top"
direction_or_top(operations) ==
    IF operations.direction # None THEN operations.direction[1] ELSE "top"

\* operations.rank_n or 5
rank_n_or_5(operations) ==
    IF operations.rank_n # None /\ operations.rank_n[1] # 0
    THEN operations.rank_n[1] ELSE 5

\* the task switch inside the try block
execute_task(output, assets, assets_to_analyze, m) ==
    LET task == output.intent.task
    IN  IF task = "trend" THEN execute_trend(m, assets_to_analyze)
        ELSE IF task = "change" THEN execute_change(m, assets_to_analyze)
        ELSE IF task = "rank"
        THEN execute_rank(m, assets, direction_or_top(output.operations),
                          rank_n_or_5(output.operations))
        ELSE IF task = "pnl" THEN execute_pnl(m, assets, assets_to_analyze)
        ELSE IF task = "comparison"
        THEN execute_comparison(m, assets_to_analyze)
        ELSE IF task = "volatility"
        THEN execute_volatility(m, assets_to_analyze)
        ELSE IF task = "drawdown" THEN execute_drawdown(m, assets_to_analyze)
        ELSE IF task = "allocation" THEN execute_allocation(m, assets)
        ELSE Outcome(Failure(task, "Unknown analytics task"), <<>>)

NotFoundError(requested_assets) ==
    <<"Requested assets ">> \o Join(requested_assets, <<", ">>)
        \o <<" not found. Try using ticker symbols like AAPL, BTC, GOLD.">>

\* execute_analytics that looks up the prices of the requested assets before
\* it checks the portfolio
execute_analytics_prefetch(output, assets, m) ==
    LET task == output.intent.task
        requires_portfolio == task \in PortfolioTasks
        res == resolve_assets(output.entities.assets, assets,
                              ~requires_portfolio)
        assets_to_analyze == res[1]
        is_external == res[2]
        prefetch == price_calls([i \in 1..Len(output.entities.assets) |->
                        normalize_symbol(output.entities.assets[i])])
    IN  IF requires_portfolio /\ assets = <<>>
        THEN Outcome(Failure(task, "No assets found in your portfolio. Please add some assets first."), prefetch)
        ELSE IF assets_to_analyze = <<>> /\ ~is_external
        THEN Outcome(AnalyticsResult(task, FALSE, <<>>, None,
                         Some(NotFoundError(output.entities.assets))),
                     prefetch)
        ELSE LET o == execute_task(output, assets, assets_to_analyze, m)
             IN  Outcome(o.result, prefetch \o o.calls)

execute_analytics(output, assets, m) ==
    LET task == output.intent.task
        requires_portfolio == task \in PortfolioTasks
        res == resolve_assets(output.entities.assets, assets,
                              ~requires_portfolio)
        assets_to_analyze == res[1]
        is_external == res[2]
    IN  IF requires_portfolio /\ assets = <<>>
        THEN Outcome(Failure(task, "No assets found in your portfolio. Please add some assets first."), <<>>)
        ELSE IF assets_to_analyze = <<>> /\ ~is_external
        THEN Outcome(AnalyticsResult(task, FALSE, <<>>, None,
                         Some(NotFoundError(output.entities.assets))),
                     <<>>)
        ELSE execute_task(output, assets, assets_to_analyze, m)

----------------------------------------------------------------------------
(* models/context.py *)

\* the history loop without the test for the "__ALL__" sentinel
RECURSIVE add_to_history_keeps_sentinel(_, _)
add_to_history_keeps_sentinel(history, assets) ==
    IF assets = <<>> THEN history
    ELSE add_to_history_keeps_sentinel(
             IF ~Contains(history, Head(assets))
             THEN Append(history, Head(assets)) ELSE history,
             Tail(assets))

\* for asset in assets: if asset not in history and asset != "__ALL__":
\*     history.append(asset)
RECURSIVE add_to_history(_, _)
add_to_history(history, assets) ==
    IF assets = <<>> THEN history
    ELSE add_to_history(
             IF ~Contains(history, Head(assets)) /\ Head(assets) # ALL
             THEN Append(history, Head(assets)) ELSE history,
             Tail(assets))

\* result_data.get("success", False)
GetSuccess(result_data) ==
    IF "success" \in DOMAIN result_data THEN result_data.success ELSE FALSE

update_context_from_result(ctx, output, result_data) ==
    LET assets == output.entities.assets
        c1 == IF assets # <<>>
              THEN [ctx EXCEPT
                      !.active_assets = assets,
                      !.mentioned_assets_history = add_to_history(@, assets)]
              ELSE ctx
    IN  [c1 EXCEPT
           !.active_time_range = Some(output.entities.time_range),
           !.last_operation = Some(output.intent.task),
           !.last_results = Some([task |-> output.intent.task,
                                  assets |-> assets,
                                  success |-> GetSuccess(result_data)])]

\* the keywords of resolve_reference
kw_that == <<"t", "h", "a", "t">>
kw_it == <<"i", "t">>
kw_this == <<"t", "h", "i", "s">>
kw_the_same == <<"t", "h", "e", " ", "s", "a", "m", "e">>
kw_worst == <<"w", "o", "r", "s", "t">>
kw_bottom == <<"b", "o", "t", "t", "o", "m">>
kw_best == <<"b", "e", "s", "t">>
kw_top == <<"t", "o", "p">>

\* context.last_results.get("task") == "rank"
LastTaskIsRank(ctx) ==
    ctx.last_results # None /\ ctx.last_results[1].task = "rank"

\* resolve_reference that looks for the ranking keywords first
resolve_reference_rank_first(text, ctx) ==
    LET reference_lower == LowerStr(text)
        first == IF ctx.active_assets # <<>>
                 THEN Some(SubSeq(ctx.active_assets, 1, 1)) ELSE None
    IN  IF text = <<>> THEN None
        ELSE IF (\E r \in {kw_worst, kw_bottom, kw_best, kw_top} :
                     IsSubstring(r, reference_lower))
                /\ LastTaskIsRank(ctx)
        THEN first
        ELSE IF ctx.active_assets # <<>> THEN Some(ctx.active_assets)
        ELSE None

\* Optional[List[str]]
resolve_reference(reference, ctx) ==
    LET reference_lower == LowerStr(reference)
        first == IF ctx.active_assets # <<>>
                 THEN Some(SubSeq(ctx.active_assets, 1, 1)) ELSE None
    IN  IF reference = <<>> THEN None
        ELSE IF (\E r \in {kw_that, kw_it, kw_this, kw_the_same} :
                     IsSubstring(r, reference_lower))
                /\ ctx.active_assets # <<>>
        THEN Some(ctx.active_assets)
        ELSE IF (IsSubstring(kw_worst, reference_lower)
                 \/ IsSubstring(kw_bottom, reference_lower))
                /\ LastTaskIsRank(ctx)
        THEN first
        ELSE IF (IsSubstring(kw_best, reference_lower)
                 \/ IsSubstring(kw_top, reference_lower))
                /\ LastTaskIsRank(ctx)
        THEN first
        ELSE IF ctx.active_assets # <<>> THEN Some(ctx.active_assets)
        ELSE None

----------------------------------------------------------------------------
(* services/chart_generator.py *)

\* generate_chart(vis_type, data): the image, and data as the call leaves it
\* (generate_bar_chart sorts the rankings list it is handed, in place)
generate_chart(vis_type, data) ==
    IF vis_type = "line_chart"
    THEN IF "trends" \in DOMAIN data
            /\ \E i \in 1..Len(data.trends) :
                   data.trends[i][2].data_points # <<>>
         THEN [image |-> Some("png"), data |-> data]
         ELSE [image |-> None, data |-> data]
    ELSE IF vis_type = "pie_chart"
    THEN IF "allocation" \in DOMAIN data
            /\ data.allocation.allocations # <<>>
         THEN [image |-> Some("png"), data |-> data]
         ELSE [image |-> None, data |-> data]
    ELSE IF vis_type = "bar_chart"
    THEN IF "rankings" \in DOMAIN data /\ data.rankings.rankings # <<>>
         THEN LET items == data.rankings.rankings
                  sorted == sort_pairs(
                      [i \in 1..Len(items) |->
                          <<items[i].change_percent, items[i]>>], TRUE)
              IN  [image |-> Some("png"),
                   data |-> [data EXCEPT !.rankings.rankings =
                                [i \in 1..Len(sorted) |-> sorted[i][2]]]]
         ELSE IF "comparison" \in DOMAIN data
                 /\ data.comparison.assets # <<>>
         THEN [image |-> Some("png"), data |-> data]
         ELSE [image |-> None, data |-> data]
    ELSE [image |-> None, data |-> data]

----------------------------------------------------------------------------
(* pipelines/dispatcher.py *)

DefaultPrompt == <<"Could you please clarify your question?">>

\* the symbols a successful result reports, by the first result key present
SourceSymbols(data) ==
    IF "trends" \in DOMAIN data THEN DictKeys(data.trends)
    ELSE IF "positions" \in DOMAIN data THEN DictKeys(data.positions)
    ELSE IF "allocation" \in DOMAIN data
    THEN [i \in 1..Len(data.allocation.allocations) |->
             data.allocation.allocations[i].symbol]
    ELSE IF "rankings" \in DOMAIN data
    THEN [i \in 1..Len(data.rankings.rankings) |->
             data.rankings.rankings[i].symbol]
    ELSE IF "comparison" \in DOMAIN data
    THEN [i \in 1..Len(data.comparison.assets) |->
             data.comparison.assets[i].symbol]
    ELSE IF "volatilities" \in DOMAIN data THEN DictKeys(data.volatilities)
    ELSE IF "drawdowns" \in DOMAIN data THEN DictKeys(data.drawdowns)
    ELSE <<>>

YahooSource(symbol) ==
    [name |-> <<"Yahoo Finance - ">> \o symbol, type |-> "market_data"]

format_analytics_result(res) ==
    LET vis_type == IF "type" \in DOMAIN res.chart_data[1]
                    THEN res.chart_data[1].type ELSE "none"
        chart == IF res.chart_data # None /\ vis_type # "none"
                 THEN generate_chart(vis_type, res.data)
                 ELSE [image |-> None, data |-> res.data]
        symbols == IF res.success THEN SourceSymbols(chart.data) ELSE <<>>
    IN  [pipeline |-> "analytics",
         success |-> res.success,
         task |-> res.task,
         text |-> IF ~res.success THEN res.error ELSE Some(<<>>),
         data |-> chart.data,
         visualization |->
             IF res.chart_data # None
             THEN Some([type |-> vis_type, chart_data |-> res.chart_data[1],
                        image_base64 |-> chart.image])
             ELSE None,
         sources |-> [i \in 1..Len(symbols) |-> YahooSource(symbols[i])]]

\* what execute_rag_query may return
RagResults ==
    {[success |-> TRUE, text |-> Some(<<"From your notes: ...">>),
      data |-> <<>>, sources |-> <<[name |-> <<"notes.txt">>,
                                    type |-> "document"]>>],
     [success |-> FALSE,
      text |-> Some(<<"Document search is not available.">>),
      data |-> <<>>, sources |-> <<>>]}

\* _execute_rag that also reports a task
execute_rag_with_task(rag_result) ==
    [pipeline |-> "rag",
     task |-> "general_question",
     success |-> rag_result.success,
     text |-> rag_result.text,
     data |-> rag_result.data,
     visualization |-> None,
     sources |-> rag_result.sources]

execute_rag(rag_result) ==
    [pipeline |-> "rag",
     success |-> rag_result.success,
     text |-> rag_result.text,
     data |-> rag_result.data,
     visualization |-> None,
     sources |-> rag_result.sources]

\* what the forecasting collaborator may return
ForecastResults ==
    {[success |-> TRUE, text |-> Some(<<>>),
      data |-> [metadata |-> [entity |-> AAPL]],
      visualization |-> Some([type |-> "line_chart"])],
     [success |-> FALSE, text |-> Some(<<"Could not generate forecast.">>),
      data |-> <<>>, visualization |-> None]}

execute_forecasting(forecast_result) ==
    LET symbol == IF "metadata" \in DOMAIN forecast_result.data
                  THEN forecast_result.data.metadata.entity ELSE <<>>
    IN  [pipeline |-> "forecasting",
         task |-> "forecast",
         success |-> forecast_result.success,
         text |-> forecast_result.text,
         data |-> forecast_result.data,
         visualization |-> forecast_result.visualization,
         sources |-> (IF symbol # <<>> THEN <<YahooSource(symbol)>> ELSE <<>>)
                         \o <<[name |-> <<"Meta Prophet">>, type |-> "model"]>>]

ClarificationText(output) ==
    IF Truthy(output.confidence.clarification_prompt)
    THEN output.confidence.clarification_prompt[1] ELSE DefaultPrompt

\* dispatch that consults the pipeline before the clarification flag
dispatch_routes_first(output, assets, m, rag_result, forecast_result) ==
    LET pipeline == output.intent.pipeline
    IN  IF pipeline = "analytics"
        THEN LET o == execute_analytics(output, assets, m)
             IN  Outcome(format_analytics_result(o.result),
                         <<Call("execute_analytics", <<>>)>> \o o.calls)
        ELSE IF output.confidence.needs_clarification
        THEN Outcome([pipeline |-> "clarification",
                      success |-> FALSE,
                      text |-> Some(ClarificationText(output)),
                      data |-> <<>>,
                      visualization |-> None], <<>>)
        ELSE IF pipeline = "rag"
        THEN Outcome(execute_rag(rag_result),
                     <<Call("execute_rag_query", <<>>)>>)
        ELSE IF pipeline = "forecasting"
        THEN Outcome(execute_forecasting(forecast_result),
                     <<Call("execute_forecast", <<>>)>>)
        ELSE Outcome([pipeline |-> pipeline,
                      success |-> FALSE,
                      text |-> Some(<<"Unknown pipeline type.">>),
                      data |-> <<>>,
                      visualization |-> None], <<>>)

dispatch(output, assets, m, rag_result, forecast_result) ==
    LET pipeline == output.intent.pipeline
    IN  IF output.confidence.needs_clarification
        THEN Outcome([pipeline |-> "clarification",
                      success |-> FALSE,
                      text |-> Some(ClarificationText(output)),
                      data |-> <<>>,
                      visualization |-> None], <<>>)
        ELSE IF pipeline = "analytics"
        THEN LET o == execute_analytics(output, assets, m)
             IN  Outcome(format_analytics_result(o.result),
                         <<Call("execute_analytics", <<>>)>> \o o.calls)
        ELSE IF pipeline = "rag"
        THEN Outcome(execute_rag(rag_result),
                     <<Call("execute_rag_query", <<>>)>>)
        ELSE IF pipeline = "forecasting"
        THEN Outcome(execute_forecasting(forecast_result),
                     <<Call("execute_forecast", <<>>)>>)
        ELSE Outcome([pipeline |-> pipeline,
                      success |-> FALSE,
                      text |-> Some(<<"Unknown pipeline type.">>),
                      data |-> <<>>,
                      visualization |-> None], <<>>)

----------------------------------------------------------------------------
(* Variable groups *)

classify_vars == <<groq_client, raw_response>>

calc_vars == <<frames, rank_args, calculated>>

validate_vars == <<classified, router_output, user_tickers>>

resolve_vars == <<requested, allow_external, resolved, ref_text>>

exec_vars == <<market, analytics_result, result, calls>>

chat_vars == <<context, stored, update_log, turn_log, response, turns,
               store_log>>

store_vars == <<table, handlers, saves>>

NoClassify == groq_client = "ok" /\ raw_response = None

NoCalc == frames = <<>> /\ rank_args = None /\ calculated = None

NoValidate == classified = None /\ router_output = None /\ user_tickers = <<>>

NoResolve == requested = <<>> /\ allow_external = FALSE /\ resolved = None
             /\ ref_text = <<>>

NoExec == market = <<>> /\ analytics_result = None /\ result = None
          /\ calls = <<>>

NoChat == context = EmptyContext /\ stored = None /\ update_log = <<>>
          /\ turn_log = <<>> /\ response = None /\ turns = 0
          /\ store_log = <<>>

NoStore == table = <<>> /\ handlers = <<>> /\ saves = <<>>

----------------------------------------------------------------------------
(* Inputs *)

\* asset strings a classified intent may carry
AssetTokens == {AAPL, aapl, MSFT, TSLA, ALL}

\* known tickers handed to validate_router_output
KnownTickers == {AAPL, <<"m", "s", "f", "t">>}

MissingFieldLists == {<<>>, <<"time_range">>}

ClassifierPrompts == {None, Some(<<>>), Some(<<"Which stock do you mean?">>)}

\* symbols of rows of the assets table: routers/assets.py create_asset stores
\* symbol.upper()
HeldSymbols == {AAPL, MSFT, BTC}

Holdings == {Asset(s, 10 * Thousand, 100) : s \in HeldSymbols}

\* the portfolios of the executor and chat runs: every symbol is one yfinance
\* is asked about
PortfolioHoldings == {Asset(s, 10 * Thousand, 100) : s \in {AAPL, MSFT}}

\* the portfolios of the chat turns
ChatHoldings == {Asset(AAPL, 10 * Thousand, 100)}

\* asset strings handed to resolve_assets
RequestTokens == {AAPL, aapl, tsla_sp, BTC, GOLD, ALL}

----------------------------------------------------------------------------
(* validate_router_output applied to every bounded input *)

InitValidate ==
    /\ pc = "validate"
    /\ NoStore /\ NoClassify /\ NoCalc
    /\ \E assets \in SeqUpTo(AssetTokens, MaxAssets), needs \in BOOLEAN,
          missing \in MissingFieldLists, prompt \in ClassifierPrompts :
            classified = RouterAIOutput("analytics", "trend", assets, None,
                                        needs, missing, prompt)
    /\ router_output = classified
    /\ user_tickers \in SeqUpTo(KnownTickers, MaxHoldings)
    /\ user_assets = <<>>
    /\ NoResolve /\ NoExec /\ NoChat

Validate ==
    /\ pc = "validate"
    /\ router_output' = validate_router_output(router_output, user_tickers)
    /\ pc' = "validated"
    /\ UNCHANGED <<classify_vars, calc_vars, store_vars>>
    /\ UNCHANGED <<classified, user_tickers, user_assets, resolve_vars,
                   exec_vars, chat_vars>>

NextValidate == Validate

SpecValidate == InitValidate /\ [][NextValidate]_vars

----------------------------------------------------------------------------
(* resolve_assets applied to every bounded input *)

InitResolve ==
    /\ pc = "resolve"
    /\ NoStore /\ NoClassify /\ NoCalc
    /\ requested \in SeqUpTo(RequestTokens, MaxAssets)
    /\ user_assets \in SeqUpTo(Holdings, MaxHoldings)
    /\ allow_external \in BOOLEAN
    /\ resolved = None
    /\ ref_text = <<>>
    /\ NoValidate /\ NoExec /\ NoChat

Resolve ==
    /\ pc = "resolve"
    /\ resolved' = Some(resolve_assets(requested, user_assets, allow_external))
    /\ pc' = "resolved"
    /\ UNCHANGED <<classify_vars, calc_vars, store_vars>>
    /\ UNCHANGED <<requested, allow_external, ref_text, user_assets,
                   validate_vars,
                   exec_vars, chat_vars>>

NextResolve == Resolve

SpecResolve == InitResolve /\ [][NextResolve]_vars

----------------------------------------------------------------------------
(* Properties of validate_router_output *)

\* case-insensitive equality of two strings
EqIgnoreCase(a, b) ==
    Len(a) = Len(b) /\ \A i \in 1..Len(a) : UpperChar(a[i]) = UpperChar(b[i])

MatchesKnown(asset) ==
    \E j \in 1..Len(user_tickers) : EqIgnoreCase(asset, user_tickers[j])

\* the subsequence of list at the positions in idx, in list order
SubseqAt(list, idx) ==
    [k \in 1..Cardinality(idx) |->
        list[CHOOSE i \in idx : Cardinality({j \in idx : j <= i}) = k]]

ValidateApplies ==
    /\ pc = "validated"
    /\ ~classified.confidence.needs_clarification
    /\ classified.entities.assets # <<>>
    /\ ~Contains(classified.entities.assets, ALL)

\* C3: validate with needs_clarification = false and an asset list without
\* "__ALL__" of which at least one asset matches the known tickers
\* case-insensitively returns exactly the matching assets, in their original
\* order and uppercased; needs_clarification stays false and missing_fields
\* is unchanged.
C3_ValidateKeepsMatched ==
    LET assets == classified.entities.assets
        idx == {i \in 1..Len(assets) : MatchesKnown(assets[i])}
    IN  (ValidateApplies /\ idx # {}) =>
            /\ router_output.entities.assets = Map(Upper, SubseqAt(assets, idx))
            /\ router_output.confidence.needs_clarification = FALSE
            /\ router_output.confidence.missing_fields
                   = classified.confidence.missing_fields

C3_Witness ==
    /\ pc = "validated"
    /\ classified.entities.assets = <<TSLA, aapl>>
    /\ user_tickers = <<AAPL>>
    /\ classified.confidence.missing_fields = <<"time_range">>
    /\ router_output.entities.assets = <<AAPL>>
    /\ ~router_output.confidence.needs_clarification

\* C4: validate with needs_clarification = false and a non-empty asset list
\* without "__ALL__" of which no asset matches the known tickers returns
\* needs_clarification = true, missing_fields = ["assets"] and a non-empty
\* clarification prompt, and leaves the asset list as it was.
C4_ValidateForcesClarification ==
    LET assets == classified.entities.assets
    IN  (ValidateApplies /\ \A i \in 1..Len(assets) : ~MatchesKnown(assets[i]))
        =>  /\ router_output.confidence.needs_clarification = TRUE
            /\ router_output.confidence.missing_fields = <<"assets">>
            /\ Truthy(router_output.confidence.clarification_prompt)
            /\ router_output.entities.assets = assets

C4_Witness ==
    /\ pc = "validated"
    /\ ~classified.confidence.needs_clarification
    /\ classified.entities.assets = <<TSLA>>
    /\ user_tickers = <<AAPL>>
    /\ router_output.confidence.needs_clarification
    /\ router_output.confidence.missing_fields = <<"assets">>
    /\ router_output.entities.assets = <<TSLA>>

----------------------------------------------------------------------------
(* Properties of resolve_assets *)

IsHolding(t) == \E i \in 1..Len(user_assets) : user_assets[i].symbol = t

\* C5: for every holdings list and both values of allow_external, a request
\* that contains "__ALL__" or is empty resolves to exactly the holdings'
\* ticker symbols with is_external = false; the empty request with
\* allow_external = true gives the same pair as ["__ALL__"] does with either
\* value of allow_external.
C5_ResolveAll ==
    (pc = "resolved" /\ (Contains(requested, ALL) \/ requested = <<>>)) =>
        /\ resolved = Some(<<Symbols(user_assets), FALSE>>)
        /\ (requested = <<>> /\ allow_external) =>
              \A x \in BOOLEAN :
                  resolved[1] = resolve_assets(<<ALL>>, user_assets, x)

C5_Witness ==
    /\ pc = "resolved"
    /\ requested = <<>>
    /\ allow_external
    /\ Len(user_assets) = 2
    /\ resolved = Some(<<Symbols(user_assets), FALSE>>)

\* C6: for a non-empty request without "__ALL__": if a normalized requested
\* ticker is a holding, exactly the normalized tickers that are holdings are
\* returned, in request order, with is_external = false, whatever
\* allow_external is; if none is a holding the full normalized list is
\* returned with is_external = true when allow_external holds, and the empty
\* list with is_external = false otherwise.  So is_external = true implies a
\* non-empty result none of whose tickers is a holding.
C6_ResolveRequested ==
    LET normalized == Map(normalize_symbol, requested)
        idx == {i \in 1..Len(normalized) : IsHolding(normalized[i])}
    IN  (pc = "resolved" /\ requested # <<>> /\ ~Contains(requested, ALL)) =>
            /\ idx # {} =>
                  resolved[1] = <<SubseqAt(normalized, idx), FALSE>>
            /\ (idx = {} /\ allow_external) =>
                  resolved[1] = <<normalized, TRUE>>
            /\ (idx = {} /\ ~allow_external) =>
                  resolved[1] = <<<<>>, FALSE>>
            /\ resolved[1][2] =>
                  /\ resolved[1][1] # <<>>
                  /\ \A k \in 1..Len(resolved[1][1]) :
                        ~IsHolding(resolved[1][1][k])

C6_Witness ==
    /\ pc = "resolved"
    /\ requested = <<tsla_sp, aapl>>
    /\ allow_external
    /\ Symbols(user_assets) = <<MSFT, AAPL>>
    /\ resolved = Some(<<<<AAPL>>, FALSE>>)

\* the request names exactly the stored symbol of holding i and has been
\* resolved
RequestedAsStored(i) ==
    pc = "resolved" /\ requested = <<user_assets[i].symbol>>

\* a portfolio match: a non-empty list of holdings' symbols, not external
PortfolioMatch(resolution) ==
    /\ resolution[1] # <<>>
    /\ \A k \in 1..Len(resolution[1]) : IsHolding(resolution[1][k])
    /\ resolution[2] = FALSE

\* C28: requesting a holding by exactly its stored symbol resolves to a
\* portfolio match with is_external = false, for both values of
\* allow_external, also when the stored symbol is a key of ASSET_SYMBOL_MAP;
\* so the resolved list that decides the executor's resolution error is not
\* empty.
C28_StoredSymbolResolves ==
    \A i \in 1..Len(user_assets) :
        RequestedAsStored(i) => PortfolioMatch(resolved[1])

\* the same for stored symbols that normalize_symbol leaves as they are
C28_UnaliasedSymbolResolves ==
    \A i \in 1..Len(user_assets) :
        (RequestedAsStored(i)
           /\ normalize_symbol(user_assets[i].symbol) = user_assets[i].symbol)
            => resolved[1] = <<<<user_assets[i].symbol>>, FALSE>>

----------------------------------------------------------------------------
(* execute_analytics applied to every bounded intent, portfolio and market *)

AnalyticsTasks == {"trend", "rank", "change", "comparison", "pnl",
                   "volatility", "drawdown", "allocation"}

\* asset strings of the intents handed to the executor
ExecTokens == {AAPL, tsla_sp, ALL}

InitExec ==
    /\ pc = "execute"
    /\ NoStore /\ NoClassify /\ NoCalc
    /\ \E task \in AnalyticsTasks \cup {"general_question"},
          assets \in SeqUpTo(ExecTokens, MaxAssets) :
            router_output = RouterAIOutput("analytics", task, assets, None,
                                           FALSE, <<>>, None)
    /\ classified = router_output
    /\ user_tickers = <<>>
    /\ user_assets \in SeqUpTo(PortfolioHoldings, MaxHoldings)
    /\ market \in [MarketSymbols -> MarketStates]
    /\ analytics_result = None /\ result = None /\ calls = <<>>
    /\ NoResolve /\ NoChat

ExecuteAnalytics ==
    /\ pc = "execute"
    /\ LET o == execute_analytics(router_output, user_assets, market)
       IN  /\ analytics_result' = Some(o.result)
           /\ calls' = calls \o o.calls
    /\ pc' = "executed"
    /\ UNCHANGED <<classify_vars, calc_vars, store_vars>>
    /\ UNCHANGED <<market, result, user_assets, validate_vars, resolve_vars,
                   chat_vars>>

\* dispatch, analytics branch: return _format_analytics_result(result)
FormatAnalyticsResult ==
    /\ pc = "executed"
    /\ result' = Some(format_analytics_result(analytics_result[1]))
    /\ pc' = "formatted"
    /\ UNCHANGED <<classify_vars, calc_vars, store_vars>>
    /\ UNCHANGED <<market, analytics_result, calls, user_assets,
                   validate_vars, resolve_vars, chat_vars>>

NextExec == ExecuteAnalytics \/ FormatAnalyticsResult

SpecExec == InitExec /\ [][NextExec]_vars

----------------------------------------------------------------------------
(* Properties of execute_analytics *)

IsFetch(call) == call.fn \in {"fetch_stock_data", "get_current_price"}

\* C7: for task pnl, allocation or rank and a user without holdings,
\* execute_analytics returns success = false with an error message, for
\* every requested asset list, and has issued no price-series or
\* current-price fetch when it returns.
C7_NoHoldingsFailsBeforeFetch ==
    (pc = "executed" /\ router_output.intent.task \in PortfolioTasks
        /\ user_assets = <<>>) =>
            /\ analytics_result # None
            /\ analytics_result[1].success = FALSE
            /\ Truthy(analytics_result[1].error)
            /\ \A i \in 1..Len(calls) : ~IsFetch(calls[i])

C7_Witness ==
    /\ pc = "executed"
    /\ router_output.intent.task = "pnl"
    /\ router_output.entities.assets = <<AAPL>>
    /\ user_assets = <<>>
    /\ market[AAPL] = "ok"
    /\ analytics_result[1].success = FALSE
    /\ calls = <<>>

FetchTasks == {"trend", "change", "volatility", "drawdown"}

ResultKey(task) ==
    IF task = "trend" THEN "trends"
    ELSE IF task = "change" THEN "changes"
    ELSE IF task = "volatility" THEN "volatilities"
    ELSE "drawdowns"

\* the symbols the executor resolved for the current intent
ResolvedSymbols ==
    resolve_assets(router_output.entities.assets, user_assets, TRUE)[1]

\* the resolved symbols for which yfinance returns rows
SymbolsWithData ==
    {ResolvedSymbols[i] : i \in {j \in 1..Len(ResolvedSymbols) :
        market[ResolvedSymbols[j]] = "ok"}}

\* C8: for trend, change, volatility and drawdown, under every per-symbol
\* pattern of fetch successes and failures, the executor returns an envelope
\* (it never raises); the envelope is a failure (success = false, data = {},
\* error set) if and only if no resolved symbol's fetch returned data, and
\* otherwise success = true and the per-symbol result map has exactly the
\* resolved symbols whose fetch returned data as its keys.
C8_PartialFetch ==
    (pc = "executed" /\ router_output.intent.task \in FetchTasks) =>
        LET res == analytics_result[1]
            key == ResultKey(res.task)
        IN  /\ analytics_result # None
            /\ res.task = router_output.intent.task
            /\ (SymbolsWithData = {}) <=> (res.success = FALSE)
            /\ res.success = FALSE =>
                  res.data = <<>> /\ Truthy(res.error)
            /\ res.success = TRUE =>
                  /\ DOMAIN res.data = {key}
                  /\ {res.data[key][i][1] : i \in 1..Len(res.data[key])}
                         = SymbolsWithData
                  /\ Len(res.data[key]) = Cardinality(SymbolsWithData)

C8_Witness ==
    /\ pc = "executed"
    /\ router_output.intent.task = "volatility"
    /\ router_output.entities.assets = <<ALL>>
    /\ Symbols(user_assets) = <<MSFT, AAPL>>
    /\ market[MSFT] = "error"
    /\ market[AAPL] = "ok"
    /\ analytics_result[1].success
    /\ DictKeys(analytics_result[1].data.volatilities) = <<AAPL>>

----------------------------------------------------------------------------
(* update_context_from_result applied repeatedly, from the empty context *)

\* asset strings of the intents handed to update_context_from_result
UpdateTokens == {AAPL, MSFT, ALL}

InitUpdate ==
    /\ pc = "update"
    /\ NoStore /\ NoClassify /\ NoCalc
    /\ context = EmptyContext
    /\ update_log = <<>> /\ store_log = <<>>
    /\ stored = None /\ turn_log = <<>> /\ response = None /\ turns = 0
    /\ user_assets = <<>>
    /\ NoValidate /\ NoResolve /\ NoExec

Update ==
    /\ pc = "update"
    /\ Len(update_log) < MaxUpdates
    /\ \E assets \in SeqUpTo(UpdateTokens, MaxAssets), success \in BOOLEAN :
          /\ context' = update_context_from_result(context,
                 RouterAIOutput("analytics", "trend", assets, None, FALSE,
                                <<>>, None),
                 [success |-> success])
          /\ update_log' = Append(update_log, assets)
    /\ UNCHANGED <<classify_vars, calc_vars, store_vars>>
    /\ UNCHANGED <<pc, stored, turn_log, response, turns, user_assets,
                   store_log, validate_vars, resolve_vars, exec_vars>>

NextUpdate == Update

SpecUpdate == InitUpdate /\ [][NextUpdate]_vars

----------------------------------------------------------------------------
(* Properties of update_context_from_result *)

\* the asset lists of all updates so far, concatenated
RECURSIVE Flatten(_)
Flatten(lists) ==
    IF lists = <<>> THEN <<>> ELSE Head(lists) \o Flatten(Tail(lists))

FirstPosition(list, x) ==
    CHOOSE i \in 1..Len(list) :
        list[i] = x /\ \A j \in 1..(i - 1) : list[j] # x

HistoryIsFirstAppearances ==
    LET history == context.mentioned_assets_history
        mentioned == Flatten(update_log)
    IN  /\ \A i, j \in 1..Len(history) : i # j => history[i] # history[j]
        /\ ~Contains(history, ALL)
        /\ {history[i] : i \in 1..Len(history)}
               = {mentioned[i] : i \in 1..Len(mentioned)} \ {ALL}
        /\ \A i, j \in 1..Len(history) :
              i < j => FirstPosition(mentioned, history[i])
                           < FirstPosition(mentioned, history[j])

EmptyUpdateKeepsAssets ==
    (update_log' = Append(update_log, <<>>)) =>
        /\ context'.active_assets = context.active_assets
        /\ context'.mentioned_assets_history = context.mentioned_assets_history

\* C10: starting from the empty context, after any sequence of updates with
\* arbitrary asset lists, mentioned_assets_history has no duplicate entry,
\* never contains "__ALL__" and lists every other asset that appeared in an
\* update, in order of first appearance; an update with an empty asset list
\* leaves active_assets and mentioned_assets_history unchanged.
C10_HistoryOfUpdates ==
    [](pc = "update" => HistoryIsFirstAppearances)
        /\ [][pc = "update" => EmptyUpdateKeepsAssets]_vars

C10_Witness ==
    /\ pc = "update"
    /\ update_log = <<<<MSFT, AAPL>>, <<AAPL, ALL>>>>
    /\ context.mentioned_assets_history = <<MSFT, AAPL>>
    /\ context.active_assets = <<AAPL, ALL>>

----------------------------------------------------------------------------
(* pipelines/dispatcher.py: dispatch applied to every bounded intent *)

that_one == <<"t", "h", "a", "t", " ", "o", "n", "e">>

\* pipeline and task of the intents of the dispatcher and chat runs
Routes ==
    {<<"analytics", "trend">>, <<"analytics", "rank">>,
     <<"analytics", "pnl">>, <<"rag", "general_question">>,
     <<"forecasting", "forecast">>, <<"clarification", "general_question">>}

\* asset lists of the intents of the dispatcher and chat runs;
\* parse_router_response replaces a missing or empty list by ["__ALL__"]
ChatAssetLists == {<<aapl>>, <<TSLA>>, <<aapl, TSLA>>, <<ALL>>}

ServicePrompt ==
    <<"AI service is not available. Please check configuration.">>

\* intents a classification may produce: complete ones, ones the classifier
\* marks as needing clarification, and the default intent that
\* classify_intent returns when the service is unavailable or fails
ChatIntents ==
    {RouterAIOutput(r[1], r[2], assets, reference, FALSE, <<>>, None) :
        r \in Routes, assets \in ChatAssetLists,
        reference \in {None, Some(that_one)}}
    \cup {RouterAIOutput("analytics", "trend", assets, None, TRUE,
                         <<"assets">>, prompt) :
            assets \in {<<aapl>>, <<ALL>>},
            prompt \in {None, Some(<<"Which stock do you mean?">>)}}
    \cup {RouterAIOutput("analytics", "trend", <<>>, None, TRUE, <<>>,
                         Some(ServicePrompt))}

\* the market states of the dispatcher and chat runs
ChatMarkets ==
    {m \in [MarketSymbols -> {"error", "ok"}] : m[MSFT] = "ok"}

AllOk == [s \in MarketSymbols |-> "ok"]

MarketsFor(output) ==
    IF output.intent.pipeline = "analytics"
       /\ ~output.confidence.needs_clarification
    THEN ChatMarkets ELSE {AllOk}

NoRag == CHOOSE r \in RagResults : ~r.success

NoForecast == CHOOSE r \in ForecastResults : ~r.success

RagFor(output) ==
    IF output.intent.pipeline = "rag"
       /\ ~output.confidence.needs_clarification
    THEN RagResults ELSE {NoRag}

ForecastFor(output) ==
    IF output.intent.pipeline = "forecasting"
       /\ ~output.confidence.needs_clarification
    THEN ForecastResults ELSE {NoForecast}

InitDispatch ==
    /\ pc = "dispatch"
    /\ NoStore /\ NoClassify /\ NoCalc
    /\ router_output \in ChatIntents
    /\ classified = router_output
    /\ user_tickers = <<>>
    /\ user_assets \in SeqUpTo(PortfolioHoldings, MaxHoldings)
    /\ market \in ChatMarkets
    /\ analytics_result = None /\ result = None /\ calls = <<>>
    /\ NoResolve /\ NoChat

Dispatch ==
    /\ pc = "dispatch"
    /\ \E rag_result \in RagFor(router_output),
          forecast_result \in ForecastFor(router_output) :
          LET o == dispatch(router_output, user_assets, market, rag_result,
                            forecast_result)
          IN  /\ result' = Some(o.result)
              /\ calls' = calls \o o.calls
    /\ pc' = "dispatched"
    /\ UNCHANGED <<classify_vars, calc_vars, store_vars>>
    /\ UNCHANGED <<market, analytics_result, user_assets, validate_vars,
                   resolve_vars, chat_vars>>

NextDispatch == Dispatch

SpecDispatch == InitDispatch /\ [][NextDispatch]_vars

----------------------------------------------------------------------------
(* Properties of dispatch *)

\* C1: whenever the intent has needs_clarification = true, dispatch returns
\* a clarification result (pipeline "clarification", success = false, text =
\* the clarification prompt, or the default prompt when there is none) and
\* has invoked neither the analytics executor, the retrieval collaborator,
\* the forecasting collaborator nor any market-data fetch.
C1_ClarificationShortCircuits ==
    (pc = "dispatched" /\ router_output.confidence.needs_clarification) =>
        /\ result # None
        /\ result[1].pipeline = "clarification"
        /\ result[1].success = FALSE
        /\ result[1].text =
              Some(IF Truthy(router_output.confidence.clarification_prompt)
                   THEN router_output.confidence.clarification_prompt[1]
                   ELSE DefaultPrompt)
        /\ calls = <<>>

C1_Witness ==
    /\ pc = "dispatched"
    /\ router_output.confidence.needs_clarification
    /\ router_output.intent.pipeline = "analytics"
    /\ router_output.entities.assets = <<aapl>>
    /\ router_output.confidence.clarification_prompt = None
    /\ Symbols(user_assets) = <<AAPL>>
    /\ market[AAPL] = "ok"
    /\ result[1].pipeline = "clarification"
    /\ result[1].text = Some(DefaultPrompt)
    /\ calls = <<>>

----------------------------------------------------------------------------
(* routers/chat.py: the chat handler, one action per step of a turn.       *)
(* turn_log lists the steps the current turn has taken; calls lists the    *)
(* pipeline and market-data calls it has made.                             *)

\* list(set(asset.symbol for asset in assets)): the distinct symbols, in
\* any order
get_user_tickers(assets) ==
    LET distinct == {assets[i].symbol : i \in 1..Len(assets)}
    IN  {t \in [1..Cardinality(distinct) -> distinct] :
            \A i, j \in 1..Len(t) : i # j => t[i] # t[j]}

\* get_context that answers a failed read with a context that is not empty
load_context_stale(store) ==
    {[outcome |-> "failed",
      context |-> [EmptyContext EXCEPT !.active_assets = <<AAPL>>]]}
    \cup (IF store # None
          THEN {[outcome |-> "found", context |-> store[1]]}
          ELSE {[outcome |-> "none", context |-> EmptyContext]})

\* get_context with the outcome of the read: the client is missing or the
\* select raises ("failed"), no row is found ("none"), or the row is found
load_context(store) ==
    {[outcome |-> "failed", context |-> EmptyContext]}
    \cup (IF store # None
          THEN {[outcome |-> "found", context |-> store[1]]}
          ELSE {[outcome |-> "none", context |-> EmptyContext]})

\* get_context: the stored context, or an empty one when there is none or
\* the read fails
get_context(store) == {o.context : o \in load_context(store)}

\* save_context with its return value: the store after the upsert and True,
\* or the store as it was and False when the client is missing or the
\* upsert raises
store_context(store, ctx) ==
    {[returned |-> TRUE, store |-> Some(ctx)],
     [returned |-> FALSE, store |-> store]}

\* save_context: the store after the upsert, or as it was when it fails
save_context(store, ctx) == {o.store : o \in store_context(store, ctx)}

\* the explanation text generate_explanation and
\* extract_follow_up_from_response leave for a result
Explanation(res) ==
    IF res.pipeline = "rag" THEN res.text[1]
    ELSE IF ~res.success
    THEN IF "error" \in DOMAIN res.data THEN res.data.error
         ELSE <<"I wasn't able to complete your request.">>
    ELSE <<"explanation of ", res.task>>

ChatResponse(text, data, visualization, sources) ==
    [text |-> text, data |-> data, visualization |-> visualization,
     sources |-> sources]

\* steps 1-3: load tickers and context, classify the query
ChatClassify ==
    /\ pc = "idle"
    /\ turns < MaxTurns
    /\ turns' = turns + 1
    /\ user_tickers' \in get_user_tickers(user_assets)
    /\ \E loaded \in load_context(stored) :
          /\ context' = loaded.context
          /\ store_log' = <<<<"load", loaded.outcome>>>>
    /\ classified' \in ChatIntents
    /\ router_output' = classified'
    /\ turn_log' = <<"classify">>
    /\ pc' = "classified"
    /\ UNCHANGED <<classify_vars, calc_vars, store_vars>>
    /\ UNCHANGED <<user_assets, market, analytics_result, result, calls,
                   stored, update_log, response, resolve_vars>>

\* steps 4-5: validate the intent, then resolve its reference
ChatValidate ==
    /\ pc = "classified"
    /\ LET validated == validate_router_output(router_output,
                                                   user_tickers)
           reference == validated.entities.reference
           found == IF Truthy(reference)
                    THEN resolve_reference(reference[1], context) ELSE None
       IN  router_output' =
               IF Truthy(found)
               THEN [validated EXCEPT !.entities.assets = found[1]]
               ELSE validated
    /\ turn_log' = Append(turn_log, "validate")
    /\ pc' = "validated"
    /\ UNCHANGED <<classify_vars, calc_vars, store_vars>>
    /\ UNCHANGED <<user_assets, user_tickers, classified, market,
                   analytics_result, result, calls, context, stored,
                   update_log, store_log, response, turns, resolve_vars>>

\* a clarification branch that also records the turn in the context
ChatClarify_updates ==
    /\ pc = "validated"
    /\ router_output.confidence.needs_clarification
    /\ response' = Some(ChatResponse(ClarificationText(router_output),
                                     <<>>, None, <<>>))
    /\ context' = update_context_from_result(context, router_output,
                                             [success |-> FALSE])
    /\ stored' = Some(context')
    /\ turn_log' = turn_log \o <<"update", "save", "clarify">>
    /\ pc' = "done"
    /\ UNCHANGED <<classify_vars, calc_vars, store_vars>>
    /\ UNCHANGED <<user_assets, user_tickers, classified, router_output,
                   market, analytics_result, result, calls,
                   update_log, store_log, turns, resolve_vars>>

\* step 6, needs_clarification: answer with the prompt and return
ChatClarify ==
    /\ pc = "validated"
    /\ router_output.confidence.needs_clarification
    /\ response' = Some(ChatResponse(ClarificationText(router_output),
                                     <<>>, None, <<>>))
    /\ turn_log' = Append(turn_log, "clarify")
    /\ pc' = "done"
    /\ UNCHANGED <<classify_vars, calc_vars, store_vars>>
    /\ UNCHANGED <<user_assets, user_tickers, classified, router_output,
                   market, analytics_result, result, calls, context, stored,
                   update_log, store_log, turns, resolve_vars>>

\* steps 6-7: dispatch to the pipeline and generate the explanation
ChatDispatch ==
    /\ pc = "validated"
    /\ ~router_output.confidence.needs_clarification
    /\ \E m \in MarketsFor(router_output),
          rag_result \in RagFor(router_output),
          forecast_result \in ForecastFor(router_output) :
          LET o == dispatch(router_output, user_assets, m, rag_result,
                            forecast_result)
          IN  /\ market' = m
              /\ result' = Some(o.result)
              /\ calls' = calls \o o.calls
                    \o (IF o.result.pipeline = "rag" THEN <<>>
                        ELSE <<Call("generate_explanation", <<>>)>>)
    /\ turn_log' = Append(turn_log, "dispatch")
    /\ pc' = "dispatched"
    /\ UNCHANGED <<classify_vars, calc_vars, store_vars>>
    /\ UNCHANGED <<user_assets, user_tickers, classified, router_output,
                   analytics_result, context, stored, update_log,
                   store_log, response,
                   turns, resolve_vars>>

\* step 8: update the context from the result
ChatUpdateContext ==
    /\ pc = "dispatched"
    /\ context' = update_context_from_result(context, router_output,
                                             result[1])
    /\ turn_log' = Append(turn_log, "update")
    /\ pc' = "updated"
    /\ UNCHANGED <<classify_vars, calc_vars, store_vars>>
    /\ UNCHANGED <<user_assets, user_tickers, classified, router_output,
                   market, analytics_result, result, calls, stored,
                   update_log, store_log, response, turns, resolve_vars>>

\* step 8: save the context
ChatSaveContext ==
    /\ pc = "updated"
    /\ \E saved \in store_context(stored, context) :
          /\ stored' = saved.store
          /\ store_log' = Append(store_log, <<"save", saved.returned>>)
    /\ turn_log' = Append(turn_log, "save")
    /\ pc' = "saved"
    /\ UNCHANGED <<classify_vars, calc_vars, store_vars>>
    /\ UNCHANGED <<user_assets, user_tickers, classified, router_output,
                   market, analytics_result, result, calls, context,
                   update_log, response, turns, resolve_vars>>

\* step 9: build and return the response
ChatRespond ==
    /\ pc = "saved"
    /\ LET res == result[1]
           response_text == IF ~res.success /\ Truthy(res.text)
                            THEN res.text[1] ELSE Explanation(res)
       IN  response' = Some(ChatResponse(response_text, res.data,
                          res.visualization,
                          IF "sources" \in DOMAIN res THEN res.sources
                          ELSE <<>>))
    /\ turn_log' = Append(turn_log, "respond")
    /\ pc' = "done"
    /\ UNCHANGED <<classify_vars, calc_vars, store_vars>>
    /\ UNCHANGED <<user_assets, user_tickers, classified, router_output,
                   market, analytics_result, result, calls, context, stored,
                   update_log, store_log, turns, resolve_vars>>

\* the handler has returned: its locals are gone, the store remains
ChatReturn ==
    /\ pc = "done"
    /\ pc' = "idle"
    /\ user_tickers' = <<>>
    /\ classified' = None
    /\ router_output' = None
    /\ market' = <<>>
    /\ result' = None
    /\ calls' = <<>>
    /\ context' = EmptyContext
    /\ turn_log' = <<>>
    /\ store_log' = <<>>
    /\ response' = None
    /\ UNCHANGED <<classify_vars, calc_vars, store_vars>>
    /\ UNCHANGED <<user_assets, analytics_result, stored, update_log, turns,
                   resolve_vars>>

\* delete_asset between two turns: every holding of the symbol is removed
DeleteAsset ==
    /\ pc = "idle"
    /\ \E i \in 1..Len(user_assets) :
          user_assets' = SelectSeq(user_assets,
              LAMBDA a : a.symbol # Upper(user_assets[i].symbol))
    /\ UNCHANGED <<classify_vars, calc_vars, store_vars>>
    /\ UNCHANGED <<pc, validate_vars, resolve_vars, exec_vars, chat_vars>>

Init ==
    /\ pc = "idle"
    /\ NoStore /\ NoClassify /\ NoCalc
    /\ user_assets \in SeqUpTo(ChatHoldings, MaxHoldings)
    /\ NoValidate /\ NoResolve /\ NoExec /\ NoChat

Next ==
    \/ DeleteAsset
    \/ ChatClassify
    \/ ChatValidate
    \/ ChatClarify
    \/ ChatDispatch
    \/ ChatUpdateContext
    \/ ChatSaveContext
    \/ ChatRespond
    \/ ChatReturn

Spec == Init /\ [][Next]_vars

----------------------------------------------------------------------------
(* Properties of a chat turn *)

NonPortfolioTasks == AnalyticsTasks \ PortfolioTasks

Held(asset) ==
    \E j \in 1..Len(user_assets) :
        EqIgnoreCase(normalize_symbol(asset), user_assets[j].symbol)

\* the classifier asked a market question about assets the user does not hold
ExternalQuestion ==
    /\ classified # None
    /\ ~classified.confidence.needs_clarification
    /\ classified.intent.pipeline = "analytics"
    /\ classified.intent.task \in NonPortfolioTasks
    /\ classified.entities.assets # <<>>
    /\ \A i \in 1..Len(classified.entities.assets) :
          /\ classified.entities.assets[i] # ALL
          /\ ~Held(classified.entities.assets[i])

\* C2: a turn whose classified intent has needs_clarification = false, a
\* non-portfolio analytics task and only assets the user does not hold is
\* not answered with a clarification: it reaches the analytics executor as
\* an external query and, when market data is available for the assets,
\* returns a successful result.
C2_ExternalQuestionAnswered ==
    (pc = "done" /\ ExternalQuestion) =>
        /\ ~Contains(turn_log, "clarify")
        /\ Contains(calls, Call("execute_analytics", <<>>))
        /\ resolve_assets(router_output.entities.assets, user_assets,
                          TRUE)[2]
        /\ (\A i \in 1..Len(classified.entities.assets) :
               market[normalize_symbol(classified.entities.assets[i])] = "ok")
              => result[1].success

\* the positions of a step in the log of the turn
StepsOf(step) == {i \in 1..Len(turn_log) : turn_log[i] = step}

\* one update, saved right after it, after the result and before the response
UpdatedOnceThenSaved ==
    /\ Cardinality(StepsOf("update")) = 1
    /\ Cardinality(StepsOf("save")) = 1
    /\ \A u \in StepsOf("update") :
          /\ u + 1 \in StepsOf("save")
          /\ \E d \in StepsOf("dispatch") : d < u
          /\ \A r \in StepsOf("respond") \cup StepsOf("clarify") : u < r

\* the statement as worded for every turn, clarification turns included
C9_EveryTurnUpdatesOnce == pc = "done" => UpdatedOnceThenSaved

\* the context object changes only in the update step, the store only in the
\* save step that follows it
ContextChangesOnlyInUpdate ==
    /\ (context' # context /\ pc' \notin {"classified", "idle"}) =>
          /\ pc = "dispatched"
          /\ turn_log' = Append(turn_log, "update")
          /\ context' = update_context_from_result(context, router_output,
                                                   result[1])
    /\ stored' # stored =>
          /\ pc = "updated"
          /\ turn_log' = Append(turn_log, "save")
          /\ stored' = Some(context)

\* C9: in every chat turn that is dispatched, the context is updated exactly
\* once and then handed to save_context, after the turn's result has been
\* produced and before its response is returned; a turn that ends in a
\* clarification response returns before dispatch and neither updates nor
\* saves the context.
C9_DispatchedTurnUpdatesOnce ==
    /\ [](pc = "done" =>
            IF router_output.confidence.needs_clarification
            THEN /\ turn_log = <<"classify", "validate", "clarify">>
                 /\ result = None
            ELSE /\ UpdatedOnceThenSaved
                 /\ turn_log = <<"classify", "validate", "dispatch",
                                 "update", "save", "respond">>
                 /\ result # None)
    /\ [][ContextChangesOnlyInUpdate]_vars

C9_Witness ==
    /\ pc = "done"
    /\ turns = 2
    /\ turn_log = <<"classify", "validate", "dispatch", "update", "save",
                    "respond">>
    /\ classified.entities.assets = <<ALL>>
    /\ classified.entities.reference = Some(that_one)
    /\ context.active_assets = <<AAPL>>
    /\ context.last_results = Some([task |-> "rank", assets |-> <<AAPL>>,
                                    success |-> TRUE])
    /\ stored = Some(context)
    /\ response # None

----------------------------------------------------------------------------
(* resolve_reference applied to every bounded reference and context *)

\* reference texts: empty, with and without keywords, in both cases
ReferenceTexts ==
    {<<>>,
     <<"t", "h", "a", "t", " ", "o", "n", "e">>,
     <<"I", "t">>,
     <<"T", "h", "i", "s">>,
     <<"t", "h", "e", " ", "s", "a", "m", "e">>,
     <<"w", "o", "r", "s", "t">>,
     <<"B", "o", "t", "t", "o", "m">>,
     <<"b", "e", "s", "t">>,
     <<"T", "O", "P">>,
     <<"b", "e", "s", "t", " ", "o", "f", " ", "i", "t">>,
     <<"w", "e", "a", "t", "h", "e", "r">>,
     <<"o", "t", "h", "e", "r", "s">>}

\* context.last_results: {} or the summary a turn stored
LastResults ==
    {None} \cup {Some([task |-> t, assets |-> <<ALL>>, success |-> TRUE]) :
                    t \in {"rank", "trend"}}

ReferenceContexts ==
    {[EmptyContext EXCEPT !.active_assets = a, !.last_results = l] :
        a \in SeqUpTo({AAPL, MSFT}, MaxAssets), l \in LastResults}

InitReference ==
    /\ pc = "reference"
    /\ NoStore /\ NoClassify /\ NoCalc
    /\ ref_text \in ReferenceTexts
    /\ context \in ReferenceContexts
    /\ resolved = None
    /\ requested = <<>> /\ allow_external = FALSE
    /\ stored = None /\ update_log = <<>> /\ turn_log = <<>>
    /\ response = None /\ turns = 0 /\ store_log = <<>>
    /\ user_assets = <<>>
    /\ NoValidate /\ NoExec

ResolveReference ==
    /\ pc = "reference"
    /\ resolved' = resolve_reference(ref_text, context)
    /\ pc' = "referenced"
    /\ UNCHANGED <<classify_vars, calc_vars, store_vars>>
    /\ UNCHANGED <<ref_text, requested, allow_external, user_assets,
                   validate_vars, exec_vars, chat_vars>>

NextReference == ResolveReference

SpecReference == InitReference /\ [][NextReference]_vars

----------------------------------------------------------------------------
(* Properties of resolve_reference *)

\* word occurs in text, letter case ignored
ContainsIgnoreCase(text, word) ==
    \E i \in 0..(Len(text) - Len(word)) :
        \A k \in 1..Len(word) : UpperChar(text[i + k]) = UpperChar(word[k])

MentionsAny(text, words) == \E w \in words : ContainsIgnoreCase(text, w)

\* the decision table
ReferenceTable(text, ctx) ==
    IF text = <<>> \/ ctx.active_assets = <<>> THEN None
    ELSE IF MentionsAny(text, {kw_that, kw_it, kw_this, kw_the_same})
    THEN Some(ctx.active_assets)
    ELSE IF MentionsAny(text, {kw_worst, kw_bottom, kw_best, kw_top})
            /\ ctx.last_results # None
            /\ ctx.last_results[1].task = "rank"
    THEN Some(<<ctx.active_assets[1]>>)
    ELSE Some(ctx.active_assets)

\* C11: resolve_reference returns no resolution if the text is empty or
\* active_assets is empty; otherwise the whole active_assets if the text
\* contains "that", "it", "this" or "the same" in any letter case; otherwise
\* the singleton of the first active asset if the text contains "worst",
\* "bottom", "best" or "top" and last_results.task is "rank"; otherwise the
\* whole active_assets.  The context is not modified by the call.
C11_ReferenceDecisionTable ==
    /\ [](pc = "referenced" => resolved = ReferenceTable(ref_text, context))
    /\ [][pc = "reference" => context' = context]_vars

C11_Witness ==
    /\ pc = "referenced"
    /\ ref_text = <<"B", "o", "t", "t", "o", "m">>
    /\ context.active_assets = <<MSFT, AAPL>>
    /\ context.last_results # None
    /\ context.last_results[1].task = "rank"
    /\ resolved = Some(<<MSFT>>)

----------------------------------------------------------------------------
(* Properties of a ranking turn *)

\* the turn ran the rank task successfully and its context was saved
RankTurnSaved ==
    /\ pc = "done"
    /\ router_output.intent.pipeline = "analytics"
    /\ router_output.intent.task = "rank"
    /\ result # None
    /\ result[1].success
    /\ stored = Some(context)

\* C12: after a turn that successfully ran the rank task, position 0 of the
\* saved context's active_assets is the symbol ranked 1, so that a reference
\* to the best (or worst) one resolves to it in the next turn.
C12_ActiveFirstIsRankedFirst ==
    RankTurnSaved =>
        /\ stored[1].active_assets # <<>>
        /\ stored[1].active_assets[1]
               = result[1].data.rankings.rankings[1].symbol
        /\ resolve_reference(kw_best, stored[1])
               = Some(<<result[1].data.rankings.rankings[1].symbol>>)

----------------------------------------------------------------------------
(* The shape of the value dispatch returns *)

SevenKeys ==
    {"pipeline", "success", "task", "text", "data", "visualization",
     "sources"}

----------------------------------------------------------------------------
(* The sources of an analytics response *)

\* the symbols a successful result reports, by the task that produced it
ReportedSymbols(task, data) ==
    IF task = "trend" THEN DictKeys(data.trends)
    ELSE IF task = "change" THEN DictKeys(data.changes)
    ELSE IF task = "volatility" THEN DictKeys(data.volatilities)
    ELSE IF task = "drawdown" THEN DictKeys(data.drawdowns)
    ELSE IF task = "pnl" THEN DictKeys(data.positions)
    ELSE IF task = "rank"
    THEN [i \in 1..Len(data.rankings.rankings) |->
             data.rankings.rankings[i].symbol]
    ELSE IF task = "comparison"
    THEN [i \in 1..Len(data.comparison.assets) |->
             data.comparison.assets[i].symbol]
    ELSE [i \in 1..Len(data.allocation.allocations) |->
             data.allocation.allocations[i].symbol]

SourcesMatch(tasks) ==
    (pc = "formatted" /\ analytics_result[1].task \in tasks) =>
        IF analytics_result[1].success
        THEN LET symbols == ReportedSymbols(result[1].task, result[1].data)
             IN  /\ symbols # <<>>
                 /\ result[1].sources =
                       [i \in 1..Len(symbols) |-> YahooSource(symbols[i])]
        ELSE result[1].sources = <<>>

\* C14: for every successful analytics result, whichever of the eight tasks
\* produced it, the response's sources list has exactly one entry per symbol
\* reported in the result data, in the result's order; for every failed
\* analytics result the sources list is empty.
C14_SourcePerSymbol == SourcesMatch(AnalyticsTasks)

----------------------------------------------------------------------------
(* One chat turn with the classification step in full: the client state    *)
(* and the completion it returns are drawn at the start, classify_intent   *)
(* turns them into the intent, and the turn continues as in the chat       *)
(* handler.                                                                *)

Absent == [t |-> "absent"]

\* a dict entry, or nothing when the key is absent
Entry(key, x) == IF x = Absent THEN <<>> ELSE key :> x

\* the "time_range" objects of the completions
TimeRangeObjects ==
    {JObj(Entry("type", type) @@ Entry("value", value) @@ Entry("unit", unit)) :
        type \in {Absent, JStr(<<"relative">>), JStr(<<"fuzzy">>)},
        value \in {Absent, JNull, JNum(0), JNum(2), JStr(<<"soon">>)},
        unit \in {Absent, JNull, JStr(<<"weeks">>), JStr(<<"decades">>)}}

TwoWeeks ==
    JObj([type |-> JStr(<<"relative">>), value |-> JNum(2),
          unit |-> JStr(<<"weeks">>)])

IntentObjects ==
    {Absent, JNull, JObj(<<>>),
     JObj([pipeline |-> JStr(<<"analytics">>)]),
     JObj([pipeline |-> JStr(<<"analytics">>), task |-> JStr(<<"trend">>)]),
     JObj([pipeline |-> JStr(<<"rag">>),
           task |-> JStr(<<"general_question">>)]),
     JObj([pipeline |-> JStr(<<"sql">>), task |-> JStr(<<"trend">>)])}

EntitiesObjects(time_ranges) ==
    {JObj(Entry("assets", assets) @@ Entry("time_range", time_range)) :
        assets \in {Absent, JArr(<<JStr(aapl)>>), JArr(<<JStr(TSLA)>>)},
        time_range \in time_ranges}

ConfidenceObjects ==
    {Absent,
     JObj([needs_clarification |-> JBool(FALSE)]),
     JObj([needs_clarification |-> JBool(TRUE),
           clarification_prompt |-> JStr(<<"Which stock do you mean?">>)])}

\* the JSON values of the completions
CompletionValues ==
    {JObj(Entry("intent", intent) @@ Entry("entities", entities)
          @@ Entry("confidence", confidence)) :
        intent \in IntentObjects,
        entities \in {Absent, JNull} \cup EntitiesObjects({TwoWeeks}),
        confidence \in ConfidenceObjects}
    \cup
    {JObj([intent |-> JObj([pipeline |-> JStr(<<"analytics">>),
                            task |-> JStr(<<"trend">>)]),
           entities |-> entities]) :
        entities \in EntitiesObjects({Absent, JNull} \cup TimeRangeObjects)}
    \cup {JArr(<<>>), JNull}

Completion(prefix, body, suffix) ==
    [content |-> "text", prefix |-> prefix, body |-> body, suffix |-> suffix]

\* the completions chat_completion may return
Completions ==
    {Completion("", [kind |-> "json", value |-> v], "") :
        v \in CompletionValues}
    \cup {Completion("fence json", [kind |-> "json", value |-> JObj(<<>>)],
                     "fence"),
          Completion("", [kind |-> "garbage"], ""),
          Completion("fence", [kind |-> "garbage"], "fence"),
          [content |-> "none"]}

ClientStates == {"unavailable", "error", "ok"}

InitClassify ==
    /\ pc = "idle"
    /\ user_assets \in SeqUpTo(ChatHoldings, MaxHoldings)
    /\ groq_client \in ClientStates
    /\ IF groq_client = "ok" THEN raw_response \in {Some(c) : c \in Completions}
       ELSE raw_response = None
    /\ NoValidate /\ NoResolve /\ NoExec /\ NoChat /\ NoCalc /\ NoStore

\* steps 1-3 of the turn, with classify_intent
Classify ==
    /\ pc = "idle"
    /\ turns' = turns + 1
    /\ user_tickers' \in get_user_tickers(user_assets)
    /\ \E loaded \in load_context(stored) :
          /\ context' = loaded.context
          /\ store_log' = <<<<"load", loaded.outcome>>>>
    /\ classified' = classify_intent(groq_client, raw_response[1])
    /\ router_output' = classified'
    /\ turn_log' = <<"classify">>
    /\ pc' = "classified"
    /\ UNCHANGED <<classify_vars, calc_vars, store_vars>>
    /\ UNCHANGED <<user_assets, market, analytics_result, result, calls,
                   stored, update_log, response, resolve_vars>>

NextClassify ==
    \/ Classify
    \/ ChatValidate
    \/ ChatClarify
    \/ ChatDispatch
    \/ ChatUpdateContext
    \/ ChatSaveContext
    \/ ChatRespond

SpecClassify == InitClassify /\ [][NextClassify]_vars

----------------------------------------------------------------------------
(* Properties of classify_intent *)

\* the client is unavailable, its call fails, or the completion is empty or
\* not parseable JSON
ClassifierFailed ==
    \/ groq_client \in {"unavailable", "error"}
    \/ /\ raw_response # None
       /\ \/ raw_response[1].content = "none"
          \/ raw_response[1].body.kind = "garbage"

\* C15: classify_intent always returns an intent; when the classifier client
\* is unavailable, the classifier call fails, or its response is not
\* parseable JSON, the intent has needs_clarification = true and a
\* clarification prompt, and the turn ends with that prompt as a
\* clarification response without any pipeline call.
C15_ClassifierFailureClarifies ==
    /\ pc # "idle" => classified # None
    /\ (pc # "idle" /\ ClassifierFailed) =>
          /\ classified.confidence.needs_clarification
          /\ Truthy(classified.confidence.clarification_prompt)
          /\ pc \in {"classified", "validated", "done"}
    /\ (pc = "done" /\ ClassifierFailed) =>
          /\ turn_log = <<"classify", "validate", "clarify">>
          /\ response[1].text = classified.confidence.clarification_prompt[1]
          /\ calls = <<>>

C15_Witness ==
    /\ pc = "done"
    /\ groq_client = "ok"
    /\ raw_response[1].content = "text"
    /\ raw_response[1].prefix = "fence"
    /\ raw_response[1].body.kind = "garbage"
    /\ response[1].text =
          <<"I couldn't understand your request. Could you please rephrase?">>
    /\ calls = <<>>

\* the JSON value of a parsed completion
Body == raw_response[1].body.value

\* the client answered with parseable JSON that is an object
WellFormed ==
    /\ groq_client = "ok"
    /\ raw_response[1].content = "text"
    /\ raw_response[1].body.kind = "json"
    /\ Body.t = "obj"

HasKey(obj, key) == key \in DOMAIN obj.fields

\* no intent object, or an intent object without pipeline or task, or no
\* entities
IntentMissing ==
    \/ ~HasKey(Body, "intent")
    \/ /\ Body.fields["intent"].t = "obj"
       /\ \/ ~HasKey(Body.fields["intent"], "pipeline")
          \/ ~HasKey(Body.fields["intent"], "task")
    \/ ~HasKey(Body, "entities")

\* a section that is present is not an object, or a pipeline or task that is
\* present is not one of the schema's values
PresentValueRejected ==
    \/ \E key \in DOMAIN Body.fields : Body.fields[key].t # "obj"
    \/ /\ HasKey(Body, "intent")
       /\ \/ /\ HasKey(Body.fields["intent"], "pipeline")
             /\ ~IsLiteral(Body.fields["intent"].fields["pipeline"],
                           Pipelines)
          \/ /\ HasKey(Body.fields["intent"], "task")
             /\ ~IsLiteral(Body.fields["intent"].fields["task"], Tasks)

\* the value of a key of a section of the body, when both are present
Given(section, key) ==
    IF HasKey(Body, section) /\ HasKey(Body.fields[section], key)
    THEN Some(Body.fields[section].fields[key]) ELSE None

GivenTimeRange == Given("entities", "time_range")

\* the body is complete and valid apart from the value and unit of a
\* relative time range: the value is absent, null or an integer
RelativeTimeRangeGiven ==
    /\ WellFormed
    /\ ~PresentValueRejected
    /\ ~IntentMissing
    /\ GivenTimeRange # None
    /\ GivenTimeRange[1].t = "obj"
    /\ HasKey(GivenTimeRange[1], "type")
    /\ GivenTimeRange[1].fields["type"] = JStr(<<"relative">>)
    /\ IsOptionalInt(Get(GivenTimeRange[1], "value", JNull))

\* the value and the unit the claim expects for the time range of the body
ExpectedValue ==
    LET value == Get(GivenTimeRange[1], "value", JNull)
    IN  IF value.t = "null" \/ value.n = 0 THEN 1 ELSE value.n

ExpectedUnit ==
    LET unit == Get(GivenTimeRange[1], "unit", JNull)
    IN  IF IsLiteral(unit, Units) THEN unit.chars[1] ELSE "months"

\* the intent, the assets and the confidence of the body are kept
RestKept ==
    /\ classified.intent.pipeline = Given("intent", "pipeline")[1].chars[1]
    /\ classified.intent.task = Given("intent", "task")[1].chars[1]
    /\ Given("entities", "assets") # None =>
          classified.entities.assets =
              [i \in 1..Len(Given("entities", "assets")[1].items) |->
                  Given("entities", "assets")[1].items[i].chars]
    /\ classified.confidence.needs_clarification =
          (IF Given("confidence", "needs_clarification") = None THEN FALSE
           ELSE Given("confidence", "needs_clarification")[1].b)

\* C17: when the classifier output carries a relative time range, the parsed
\* TimeRange has value 1 if the value is absent, null or 0, and unit months
\* if the unit is absent or is not one of days, weeks, months, years; in
\* both cases the rest of the classified intent is kept and no clarification
\* is forced.
C17_TimeRangeDefaults ==
    (pc # "idle" /\ RelativeTimeRangeGiven) =>
        /\ classified.entities.time_range.type = "relative"
        /\ classified.entities.time_range.value = ExpectedValue
        /\ classified.entities.time_range.unit = ExpectedUnit
        /\ RestKept

\* the part of C17 for a unit that is absent, null or one of the four
C17_ValidUnit ==
    (/\ pc # "idle" /\ RelativeTimeRangeGiven
     /\ Get(GivenTimeRange[1], "unit", JNull).t = "str" =>
           IsLiteral(Get(GivenTimeRange[1], "unit", JNull), Units)) =>
        /\ classified.entities.time_range.value = ExpectedValue
        /\ classified.entities.time_range.unit = ExpectedUnit
        /\ RestKept

----------------------------------------------------------------------------
(* calculate_trend on its own: a frame of closes is drawn at the start and *)
(* the calculator is applied to it.                                        *)

\* closes of the frames: 0, a pair with a change of exactly 1 percent, and
\* pairs whose change lies between 1 and 1.005 percent in either direction
Closes == {0, 100, 101, 102, 296, 299, 302}

InitTrend ==
    /\ pc = "trend"
    /\ frames \in {<<<<AAPL, df>>>> : df \in SeqUpTo(Closes, MaxRows)}
    /\ rank_args = None
    /\ calculated = None
    /\ user_assets = <<>>
    /\ NoStore /\ NoClassify /\ NoValidate /\ NoResolve /\ NoExec /\ NoChat

CalculateTrend ==
    /\ pc = "trend"
    /\ calculated' = Some(calculate_trend(frames[1][2], frames[1][1]))
    /\ pc' = "trended"
    /\ UNCHANGED <<frames, rank_args, user_assets>>
    /\ UNCHANGED <<store_vars, classify_vars, validate_vars, resolve_vars, exec_vars,
                   chat_vars>>

NextTrend == CalculateTrend

SpecTrend == InitTrend /\ [][NextTrend]_vars

\* the frame, its first and last close
TrendFrame == frames[1][2]

StartClose == TrendFrame[1]

EndClose == TrendFrame[Len(TrendFrame)]

\* C18 as stated: for every series with at least 2 rows, the direction is
\* "up" if and only if the reported change_percent is > 1, "down" if and
\* only if it is < -1, and "flat" otherwise; equal start and end prices give
\* flat, and a start price of 0 gives percent change 0 and direction flat.
C18_DirectionByReportedChange ==
    (pc = "trended" /\ Len(TrendFrame) >= 2) =>
        LET trend == calculated[1]
        IN  /\ trend.trend_direction = "up" <=> trend.change_percent > 100
            /\ trend.trend_direction = "down" <=>
                  trend.change_percent < 0 - 100
            /\ trend.trend_direction \in {"up", "down", "flat"}
            /\ StartClose = EndClose => trend.trend_direction = "flat"
            /\ StartClose = 0 =>
                  /\ trend.change_percent = 0
                  /\ trend.trend_direction = "flat"

\* C18, amended: the direction follows the percent change before rounding:
\* "up" if and only if (end - start) / start * 100 > 1, "down" if and only
\* if it is < -1, "flat" otherwise; the reported change_percent is that
\* value rounded to 2 decimals, so a reported value above 1 implies "up" and
\* "up" implies a reported value of at least 1.0 (and likewise for "down");
\* equal start and end prices give flat, and a start price of 0 gives
\* percent change 0 and direction flat.
C18_DirectionByExactChange ==
    (pc = "trended" /\ Len(TrendFrame) >= 2) =>
        LET trend == calculated[1]
            up == StartClose # 0 /\ (EndClose - StartClose) * 100 > StartClose
            down == StartClose # 0
                    /\ (EndClose - StartClose) * 100 < 0 - StartClose
        IN  /\ trend.trend_direction = "up" <=> up
            /\ trend.trend_direction = "down" <=> down
            /\ trend.trend_direction = "flat" <=> ~up /\ ~down
            /\ trend.change_percent > 100 => trend.trend_direction = "up"
            /\ trend.trend_direction = "up" => trend.change_percent >= 100
            /\ trend.change_percent < 0 - 100 =>
                  trend.trend_direction = "down"
            /\ trend.trend_direction = "down" =>
                  trend.change_percent <= 0 - 100
            /\ StartClose = EndClose => trend.trend_direction = "flat"
            /\ StartClose = 0 =>
                  /\ trend.change_percent = 0
                  /\ trend.trend_direction = "flat"

C18_Witness ==
    /\ pc = "trended"
    /\ TrendFrame = <<299, 302>>
    /\ calculated[1].change_percent = 100
    /\ calculated[1].trend_direction = "up"

----------------------------------------------------------------------------
(* The rank branch of the executor on its own: the fetched frames and the  *)
(* operations of the intent are drawn at the start, the branch fills the   *)
(* defaults and applies rank_by_performance.                               *)

\* symbols of the fetched frames, in dict order
RankSymbols == <<AAPL, MSFT, TSLA, BTC_USD, GC_F, GLD>>

\* frames of the fetched symbols: too short, a gain, a loss, a smaller gain
RankFrames == {<<100>>, <<100, 110>>, <<100, 90>>, <<100, 100, 105>>}

RankOperations ==
    [direction : {None, Some("top"), Some("bottom")},
     rank_n : {None} \cup {Some(n) : n \in 1..MaxRankN}]

InitRank ==
    /\ pc = "rank"
    /\ \E k \in 0..Len(RankSymbols) :
          \E dfs \in [1..k -> RankFrames] :
             frames = [i \in 1..k |-> <<RankSymbols[i], dfs[i]>>]
    /\ rank_args \in {Some(operations) : operations \in RankOperations}
    /\ calculated = None
    /\ user_assets = <<>>
    /\ NoStore /\ NoClassify /\ NoValidate /\ NoResolve /\ NoExec /\ NoChat

\* executor.py l.176-178 and the rank_by_performance call of _execute_rank
RankByPerformance ==
    /\ pc = "rank"
    /\ calculated' = Some(rank_by_performance(frames,
                              direction_or_top(rank_args[1]),
                              rank_n_or_5(rank_args[1])))
    /\ pc' = "ranked"
    /\ UNCHANGED <<frames, rank_args, user_assets>>
    /\ UNCHANGED <<store_vars, classify_vars, validate_vars, resolve_vars, exec_vars,
                   chat_vars>>

NextRank == RankByPerformance

SpecRank == InitRank /\ [][NextRank]_vars

\* the direction and N in force: the ones given, or "top" and 5
RankDirection ==
    IF rank_args[1].direction = None THEN "top"
    ELSE rank_args[1].direction[1]

RankN == IF rank_args[1].rank_n = None THEN 5 ELSE rank_args[1].rank_n[1]

\* positions of the frames with at least 2 rows
Rankable == {i \in 1..Len(frames) : Len(frames[i][2]) >= 2}

\* percent change of a frame, in hundredths
ChangeOf(i) ==
    LET df == frames[i][2]
    IN  Round2((df[Len(df)] - df[1]) * 100, df[1])

\* C19: rank_by_performance returns at most N entries, drawn only from
\* symbols whose series has at least 2 rows; their change_percent values
\* are non-increasing for "top" and non-decreasing for "bottom"; the entries
\* are the N extreme ones of the full ordering; their rank fields are
\* 1, 2, ..., k in list order; with no direction or N given the executor
\* uses "top" and 5.
C19_RankOrdering ==
    pc = "ranked" =>
        LET rankings == calculated[1].rankings
            k == Len(rankings)
            ranked == {i \in Rankable :
                          \E r \in 1..k : rankings[r].symbol = frames[i][1]}
            better(x, y) == IF RankDirection = "top" THEN x >= y ELSE x <= y
        IN  /\ calculated[1].direction = RankDirection
            /\ k <= RankN
            /\ k = IF Cardinality(Rankable) < RankN
                   THEN Cardinality(Rankable) ELSE RankN
            /\ \A r \in 1..k :
                  /\ \E i \in Rankable :
                        /\ rankings[r].symbol = frames[i][1]
                        /\ rankings[r].change_percent = ChangeOf(i)
                  /\ rankings[r].rank = r
            /\ \A r, q \in 1..k :
                  r # q => rankings[r].symbol # rankings[q].symbol
            /\ \A r \in 1..(k - 1) :
                  better(rankings[r].change_percent,
                         rankings[r + 1].change_percent)
            /\ \A i \in Rankable \ ranked :
                  \A r \in 1..k :
                     better(rankings[r].change_percent, ChangeOf(i))

\* six rankable symbols and no direction or N given: the five best, best
\* first
C19_Witness ==
    /\ pc = "ranked"
    /\ rank_args = Some([direction |-> None, rank_n |-> None])
    /\ Cardinality(Rankable) = 6
    /\ Len(calculated[1].rankings) = 5
    /\ calculated[1].rankings[1].symbol = GLD
    /\ calculated[1].rankings[1].change_percent = 1000
    /\ calculated[1].rankings[5].change_percent = 0 - 1000

----------------------------------------------------------------------------
(* The rank task and the requested asset list *)

\* the result of the executor for the same user, market and intent with the
\* asset list ["__ALL__"]
RankOfWholePortfolio ==
    execute_analytics([router_output EXCEPT !.entities.assets = <<ALL>>],
                      user_assets, market).result

\* C20: for task rank and a user with at least one holding, the executor's
\* result (success flag and rankings) is the same for every requested asset
\* list: the asset filter has no influence on whether the ranking runs or
\* on what it returns.
C20_RankIgnoresAssetFilter ==
    (pc = "executed" /\ router_output.intent.task = "rank"
        /\ user_assets # <<>>) =>
            /\ analytics_result[1].success = RankOfWholePortfolio.success
            /\ analytics_result[1].success =>
                  analytics_result[1].data = RankOfWholePortfolio.data

\* the part of C20 for an asset list that is empty or names "__ALL__" or a
\* holding of the user
C20_MatchingFilter ==
    (/\ pc = "executed" /\ router_output.intent.task = "rank"
     /\ user_assets # <<>>
     /\ resolve_assets(router_output.entities.assets, user_assets,
                       FALSE)[1] # <<>>) =>
            /\ analytics_result[1].success = RankOfWholePortfolio.success
            /\ analytics_result[1].success =>
                  analytics_result[1].data = RankOfWholePortfolio.data

----------------------------------------------------------------------------
(* The pnl and allocation tasks on their own: the holdings (lots of        *)
(* different size and price, several of one symbol allowed), the resolved  *)
(* symbols and the market are drawn at the start; _execute_pnl or          *)
(* _execute_allocation is applied.                                         *)

\* size and average buy price of a lot: 10 units at 100, 3 units at 50,
\* 10 units at 0, 0.004 units at 1, and an empty lot
LotTerms == {<<10 * Thousand, 100>>, <<3 * Thousand, 50>>,
             <<10 * Thousand, 0>>, <<4, 1>>, <<0, 100>>}

PnlLots == {Asset(s, t[1], t[2]) : s \in {AAPL, MSFT}, t \in LotTerms}

\* the symbols argument of _execute_pnl
PnlSymbols == {<<AAPL>>, <<aapl>>, <<AAPL, MSFT>>, <<TSLA>>}

PnlMarkets == [{AAPL, MSFT} -> {"ok", "error"}]

InitPnl ==
    /\ pc = "portfolio"
    /\ user_assets \in SeqUpTo(PnlLots, MaxHoldings)
    /\ requested \in PnlSymbols
    /\ market \in PnlMarkets
    /\ analytics_result = None /\ result = None /\ calls = <<>>
    /\ allow_external = FALSE /\ resolved = None /\ ref_text = <<>>
    /\ NoStore /\ NoClassify /\ NoValidate /\ NoChat /\ NoCalc

ExecutePnl ==
    /\ pc = "portfolio"
    /\ LET o == execute_pnl(market, user_assets, requested)
       IN  /\ analytics_result' = Some(o.result)
           /\ calls' = calls \o o.calls
    /\ pc' = "pnl"
    /\ UNCHANGED <<market, result, user_assets, store_vars, classify_vars, calc_vars,
                   validate_vars, resolve_vars, chat_vars>>

ExecuteAllocation ==
    /\ pc = "portfolio"
    /\ LET o == execute_allocation(market, user_assets)
       IN  /\ analytics_result' = Some(o.result)
           /\ calls' = calls \o o.calls
    /\ pc' = "allocation"
    /\ UNCHANGED <<market, result, user_assets, store_vars, classify_vars, calc_vars,
                   validate_vars, resolve_vars, chat_vars>>

NextPnl == ExecutePnl \/ ExecuteAllocation

SpecPnl == InitPnl /\ [][NextPnl]_vars

----------------------------------------------------------------------------
(* Properties of the pnl task *)

\* a successful pnl result has been returned
PnlDone == pc = "pnl" /\ analytics_result[1].success

\* the symbol is one of the resolved symbols, whatever its case
IsResolved(symbol) ==
    \E i \in 1..Len(requested) : Upper(requested[i]) = Upper(symbol)

IsHeld(symbol) == \E i \in 1..Len(user_assets) : user_assets[i].symbol = symbol

IsPriced(symbol) == symbol \in DOMAIN market /\ market[symbol] = "ok"

\* the position is the one of the lot at the current price, each figure
\* rounded to 2 decimals
PositionOfLot(position, lot, current_price) ==
    LET cost_basis == lot.quantity * lot.avg_buy_price
        current_value == lot.quantity * current_price
    IN  /\ position.quantity = lot.quantity
        /\ position.cost_basis = Round2(cost_basis, Thousand)
        /\ position.current_value = Round2(current_value, Thousand)
        /\ position.unrealized_pnl =
              Round2(current_value - cost_basis, Thousand)
        /\ position.pnl_percent =
              (IF cost_basis = 0 THEN 0
               ELSE Round2((current_value - cost_basis) * 100, cost_basis))

\* C21: the pnl task reports positions only for resolved symbols that are
\* holdings and whose current price was fetched, one for each such symbol,
\* and each position has cost_basis = quantity * avg_buy_price,
\* current_value = quantity * current_price, unrealized_pnl = current_value
\* - cost_basis and pnl_percent = unrealized_pnl / cost_basis * 100, or 0
\* when cost_basis is 0, for a lot of its symbol.
C21_PnlPositions ==
    PnlDone =>
        LET positions == analytics_result[1].data.positions
        IN  /\ \A i \in 1..Len(positions) :
                  LET symbol == positions[i][1]
                  IN  /\ IsResolved(symbol) /\ IsHeld(symbol)
                      /\ IsPriced(symbol)
                      /\ positions[i][2].symbol = symbol
                      /\ \E j \in 1..Len(user_assets) :
                            /\ user_assets[j].symbol = symbol
                            /\ PositionOfLot(positions[i][2], user_assets[j],
                                             LastPrice(symbol))
            /\ \A j \in 1..Len(user_assets) :
                  LET symbol == user_assets[j].symbol
                  IN  (IsResolved(symbol) /\ IsPriced(symbol)) =>
                          DictHas(positions, symbol)
            /\ \A i, k \in 1..Len(positions) :
                  i # k => positions[i][1] # positions[k][1]

\* 10 AAPL at 100 with AAPL at 110, MSFT held but not asked for
C21_Witness ==
    /\ PnlDone
    /\ user_assets = <<Asset(AAPL, 10 * Thousand, 100),
                       Asset(MSFT, 3 * Thousand, 50)>>
    /\ requested = <<aapl>>
    /\ market[MSFT] = "ok"
    /\ DictKeys(analytics_result[1].data.positions) = <<AAPL>>
    /\ analytics_result[1].data.positions[1][2].cost_basis = 100000
    /\ analytics_result[1].data.positions[1][2].current_value = 110000
    /\ analytics_result[1].data.positions[1][2].unrealized_pnl = 10000
    /\ analytics_result[1].data.positions[1][2].pnl_percent = 1000

----------------------------------------------------------------------------
(* Properties of the allocation task *)

AllocationDone == pc = "allocation" /\ analytics_result[1].success

\* positions of the holdings with a fetched price
PricedLots == {j \in 1..Len(user_assets) : IsPriced(user_assets[j].symbol)}

\* quantity * current price of a holding, in thousandths
LotValue(j) == user_assets[j].quantity * LastPrice(user_assets[j].symbol)

\* total value of the priced holdings among the first n, in thousandths
RECURSIVE ValueUpTo(_)
ValueUpTo(n) ==
    IF n = 0 THEN 0
    ELSE ValueUpTo(n - 1) + (IF n \in PricedLots THEN LotValue(n) ELSE 0)

PortfolioValue == ValueUpTo(Len(user_assets))

RECURSIVE SumPercentages(_)
SumPercentages(allocations) ==
    IF allocations = <<>> THEN 0
    ELSE allocations[1].percentage + SumPercentages(Tail(allocations))

\* C22: for any holdings with fetched prices the allocation result lists
\* one entry per priced holding in non-increasing order of percentage, each
\* percentage equals value / total portfolio value * 100 rounded to 2
\* decimals, the percentages sum to 100 within rounding tolerance (half a
\* hundredth per entry) when the total value is positive, and every
\* percentage is 0 when the total value is 0.
C22_AllocationPercentages ==
    AllocationDone =>
        LET allocations == analytics_result[1].data.allocation.allocations
            n == Len(allocations)
            diff == SumPercentages(allocations) - 10000
        IN  /\ n = Cardinality(PricedLots)
            /\ \A i \in 1..(n - 1) :
                  allocations[i].percentage >= allocations[i + 1].percentage
            /\ \A i \in 1..n :
                  \E j \in PricedLots :
                     /\ allocations[i].symbol = user_assets[j].symbol
                     /\ allocations[i].quantity = user_assets[j].quantity
                     /\ allocations[i].value = Round2(LotValue(j), Thousand)
                     /\ allocations[i].percentage =
                           (IF PortfolioValue > 0
                            THEN Round2(LotValue(j) * 100, PortfolioValue)
                            ELSE 0)
            /\ PortfolioValue > 0 => 2 * diff <= n /\ 2 * diff >= 0 - n
            /\ PortfolioValue = 0 =>
                  \A i \in 1..n : allocations[i].percentage = 0
            /\ analytics_result[1].data.allocation.total_value =
                  Round2(PortfolioValue, Thousand)

\* 3 MSFT and 10 AAPL: AAPL 95.07 percent first, MSFT 4.93 percent second
C22_Witness ==
    /\ AllocationDone
    /\ user_assets = <<Asset(MSFT, 3 * Thousand, 50),
                       Asset(AAPL, 10 * Thousand, 100)>>
    /\ analytics_result[1].data.allocation.allocations[1].symbol = AAPL
    /\ analytics_result[1].data.allocation.allocations[1].percentage = 9507
    /\ analytics_result[1].data.allocation.allocations[2].symbol = MSFT
    /\ analytics_result[1].data.allocation.allocations[2].percentage = 493

\* an allocation over holdings whose total value is 0
C22_ZeroTotal ==
    /\ AllocationDone
    /\ PortfolioValue = 0
    /\ Len(analytics_result[1].data.allocation.allocations) = 2

----------------------------------------------------------------------------
(* Rounding *)

\* sum over the reported positions of quantity * price, in thousandths, for
\* the price field given in hundredths
RECURSIVE SumUnrounded(_, _)
SumUnrounded(positions, cost) ==
    IF positions = <<>> THEN 0
    ELSE LET position == positions[1][2]
             price == IF cost THEN position.avg_buy_price
                      ELSE position.current_price
         IN  position.quantity * (price \div 100)
                 + SumUnrounded(Tail(positions), cost)

\* C23: rounding to 2 decimals is applied only to final output values and
\* never to a value that feeds a further computation: the portfolio-level
\* P&L totals equal the rounding of the sums of the unrounded per-position
\* cost bases and current values, and the allocation ordering is decided on
\* the unrounded values.
C23_RoundingOnlyOnOutput ==
    /\ PnlDone =>
          LET positions == analytics_result[1].data.positions
              total == analytics_result[1].data.total
          IN  /\ total.total_cost_basis =
                    Round2(SumUnrounded(positions, TRUE), Thousand)
              /\ total.total_current_value =
                    Round2(SumUnrounded(positions, FALSE), Thousand)
    /\ AllocationDone =>
          LET allocations == analytics_result[1].data.allocation.allocations
              exact(i) == allocations[i].quantity
                              * LastPrice(allocations[i].symbol)
          IN  \A i \in 1..(Len(allocations) - 1) : exact(i) >= exact(i + 1)

\* the totals are the sums of the rounded per-position figures
C23_TotalsOfRoundedPositions ==
    PnlDone =>
        LET positions == analytics_result[1].data.positions
            total == analytics_result[1].data.total
        IN  /\ total.total_cost_basis = sum_field(positions, TRUE)
            /\ total.total_current_value = sum_field(positions, FALSE)

\* the relevant holdings with a fetched price, in the order of user_assets
RECURSIVE RelevantPricedLots(_)
RelevantPricedLots(lots) ==
    IF lots = <<>> THEN <<>>
    ELSE (IF IsResolved(Head(lots).symbol) /\ IsPriced(Head(lots).symbol)
          THEN <<Head(lots)>> ELSE <<>>) \o RelevantPricedLots(Tail(lots))

\* the sum over the lots of quantity * avg_buy_price (cost) or quantity *
\* current price, each term rounded to 2 decimals as a position reports it
RECURSIVE SumOverLots(_, _)
SumOverLots(lots, cost) ==
    IF lots = <<>> THEN 0
    ELSE LET lot == Head(lots)
             price == IF cost THEN lot.avg_buy_price
                      ELSE LastPrice(lot.symbol)
         IN  Round2(lot.quantity * price, Thousand)
                 + SumOverLots(Tail(lots), cost)

DistinctSymbols(lots) ==
    \A i, j \in 1..Len(lots) : i # j => lots[i].symbol # lots[j].symbol

\* C27: the pnl task's portfolio-level total covers every relevant priced
\* holding, several lots of one symbol included: total_cost_basis is the sum
\* of quantity * avg_buy_price and total_current_value the sum of quantity *
\* current price over all of them.
C27_TotalCoversEveryLot ==
    PnlDone =>
        LET lots == RelevantPricedLots(user_assets)
            total == analytics_result[1].data.total
        IN  /\ total.total_cost_basis = SumOverLots(lots, TRUE)
            /\ total.total_current_value = SumOverLots(lots, FALSE)

\* the same for holdings with one lot per symbol
C27_TotalCoversDistinctSymbols ==
    (PnlDone /\ DistinctSymbols(user_assets)) =>
        LET lots == RelevantPricedLots(user_assets)
            total == analytics_result[1].data.total
        IN  /\ total.total_cost_basis = SumOverLots(lots, TRUE)
            /\ total.total_current_value = SumOverLots(lots, FALSE)

----------------------------------------------------------------------------
(* The calculators on their own: two fetched frames are drawn at the       *)
(* start; every calculator is applied to the first one and the ranking to  *)
(* both.                                                                   *)

\* positive closes (calculate_drawdown divides by the running maximum)
PositiveCloses == {90, 100, 110}

InitCalculators ==
    /\ pc = "calculate"
    /\ \E df1, df2 \in SeqUpTo(PositiveCloses, MaxRows) :
          frames = <<<<AAPL, df1>>, <<MSFT, df2>>>>
    /\ rank_args = None
    /\ calculated = None
    /\ user_assets = <<>>
    /\ NoStore /\ NoClassify /\ NoValidate /\ NoResolve /\ NoExec /\ NoChat

ApplyCalculators ==
    /\ pc = "calculate"
    /\ LET df == frames[1][2]
       IN  calculated' =
               Some([trend |-> calculate_trend(df, frames[1][1]),
                     change |-> calculate_percentage_change(df),
                     absolute |-> calculate_absolute_change(df),
                     volatility |-> calculate_volatility(df),
                     drawdown |-> calculate_drawdown(df),
                     ranking |-> rank_by_performance(frames, "top", 5)])
    /\ pc' = "calculated"
    /\ UNCHANGED <<frames, rank_args, user_assets>>
    /\ UNCHANGED <<store_vars, classify_vars, validate_vars, resolve_vars, exec_vars,
                   chat_vars>>

NextCalculators == ApplyCalculators

SpecCalculators == InitCalculators /\ [][NextCalculators]_vars

\* C24: for every series of length 0 or 1, each calculator returns its
\* zeroed result: trend gives zero prices and changes with direction flat
\* and no data points, percentage and absolute change give 0, volatility
\* gives 0, drawdown gives 0 for max drawdown, peak and trough, and ranking
\* omits the symbol.
C24_DegenerateSeries ==
    (pc = "calculated" /\ Len(frames[1][2]) < 2) =>
        LET out == calculated[1]
        IN  /\ out.trend =
                  [symbol |-> frames[1][1], start_price |-> 0,
                   end_price |-> 0, change_absolute |-> 0,
                   change_percent |-> 0, trend_direction |-> "flat",
                   data_points |-> <<>>]
            /\ out.change = [change_percent |-> 0, start |-> 0, end |-> 0]
            /\ out.absolute = [change_absolute |-> 0, start |-> 0, end |-> 0]
            /\ out.volatility.zero
            /\ out.drawdown =
                  [max_drawdown_percent |-> 0, peak |-> 0, trough |-> 0]
            /\ \A r \in 1..Len(out.ranking.rankings) :
                  out.ranking.rankings[r].symbol # frames[1][1]
            /\ Len(out.ranking.rankings) =
                  (IF Len(frames[2][2]) < 2 THEN 0 ELSE 1)

\* a one-row series next to a series that is ranked
C24_Witness ==
    /\ pc = "calculated"
    /\ frames = <<<<AAPL, <<100>>>>, <<MSFT, <<100, 110>>>>>>
    /\ calculated[1].trend.trend_direction = "flat"
    /\ calculated[1].trend.data_points = <<>>
    /\ Len(calculated[1].ranking.rankings) = 1
    /\ calculated[1].ranking.rankings[1].symbol = MSFT

\* the asset list the dispatcher is handed
DispatchedAssets == router_output.entities.assets

\* asset.upper() in [t.upper() for t in user_tickers]
MatchesUserTicker(asset) ==
    \E k \in 1..Len(user_tickers) : Upper(user_tickers[k]) = Upper(asset)

\* C29: in every turn that reaches dispatch, over any history of earlier
\* turns, the asset list handed to the dispatcher contains "__ALL__" or
\* consists solely of tickers that match the user's known tickers, also when
\* a reference was resolved from the conversation context.
C29_DispatchedAssetsValidated ==
    (pc = "validated" /\ ~router_output.confidence.needs_clarification) =>
        \/ Contains(DispatchedAssets, ALL)
        \/ \A i \in 1..Len(DispatchedAssets) :
              MatchesUserTicker(DispatchedAssets[i])

\* the dispatched list is what resolve_reference takes from the stored
\* context: its active assets, or the first of them
ResolvedFromStored ==
    /\ Truthy(classified.entities.reference)
    /\ stored # None
    /\ stored[1].active_assets # <<>>
    /\ DispatchedAssets \in {stored[1].active_assets,
                              <<stored[1].active_assets[1]>>}

\* C29 as the code has it: the dispatched asset list contains "__ALL__",
\* or consists solely of tickers that match the user's known tickers, or is
\* the list a reference resolved from the stored context, which is not
\* validated against the known tickers.
C29_DispatchedAssetsValidatedOrResolved ==
    (pc = "validated" /\ ~router_output.confidence.needs_clarification) =>
        \/ Contains(DispatchedAssets, ALL)
        \/ \A i \in 1..Len(DispatchedAssets) :
              MatchesUserTicker(DispatchedAssets[i])
        \/ ResolvedFromStored

\* a second turn, after the holding was deleted, whose reference resolves
\* to the deleted holding's ticker
C29_Witness ==
    /\ pc = "validated"
    /\ turns = 2
    /\ ~router_output.confidence.needs_clarification
    /\ user_tickers = <<>>
    /\ classified.entities.assets = <<ALL>>
    /\ classified.entities.reference = Some(that_one)
    /\ stored # None /\ stored[1].active_assets = <<AAPL>>
    /\ DispatchedAssets = <<AAPL>>

\* the same for turns whose intent carries no reference, or whose context
\* has no active assets
C29_WithoutReference ==
    (pc = "validated" /\ ~router_output.confidence.needs_clarification
       /\ (~Truthy(classified.entities.reference)
             \/ context.active_assets = <<>>)) =>
        \/ Contains(DispatchedAssets, ALL)
        \/ \A i \in 1..Len(DispatchedAssets) :
              MatchesUserTicker(DispatchedAssets[i])

----------------------------------------------------------------------------
(* Context storage failures in a chat turn.  Once a handler has started it *)
(* runs to its return, so its steps are taken under weak fairness: a       *)
(* handler is never left for ever at a point where it has a next step.     *)

\* the steps after the dispatch decision
AnswerSteps ==
    \/ ChatClarify
    \/ ChatUpdateContext
    \/ ChatSaveContext
    \/ ChatRespond

\* contexts an earlier turn may have left in the store
StoredContexts ==
    {None,
     Some([EmptyContext EXCEPT !.active_assets = <<MSFT>>,
                               !.mentioned_assets_history = <<MSFT>>])}

\* the last turn of a conversation
InitTurn ==
    /\ pc = "idle"
    /\ NoStore /\ NoClassify /\ NoCalc
    /\ user_assets \in SeqUpTo(ChatHoldings, MaxHoldings)
    /\ context = EmptyContext
    /\ stored \in StoredContexts
    /\ update_log = <<>> /\ turn_log = <<>> /\ response = None
    /\ store_log = <<>>
    /\ turns = MaxTurns - 1
    /\ NoValidate /\ NoResolve /\ NoExec

\* validate_router_output is total: the step is enabled wherever the
\* handler stands before it
ValidateEnabled == pc = "classified"

\* dispatch returns an envelope for every intent, market and collaborator
\* outcome: the step is enabled wherever the handler stands before it with
\* an intent that needs no clarification
DispatchEnabled ==
    pc = "validated" /\ ~router_output.confidence.needs_clarification

\* weak fairness of every step of the handler; for the validation and the
\* dispatch the enabling condition is written out
HandlerFairness ==
    /\ WF_vars(AnswerSteps)
    /\ ([]<>(~ValidateEnabled) \/ []<><<ChatValidate>>_vars)
    /\ ([]<>(~DispatchEnabled) \/ []<><<ChatDispatch>>_vars)

SpecFair == InitTurn /\ [][Next]_vars /\ HandlerFairness

\* the load of the turn found nothing or failed
LoadFailed ==
    /\ store_log # <<>>
    /\ store_log[1] \in {<<"load", "failed">>, <<"load", "none">>}

\* the save of the turn returned False
SaveFailed ==
    /\ Len(store_log) = 2
    /\ store_log[2] = <<"save", FALSE>>

WellFormedResponse ==
    /\ response # None
    /\ DOMAIN response[1] = {"text", "data", "visualization", "sources"}
    /\ response[1].text # <<>>

\* C25: a context load that finds nothing or fails yields an empty context,
\* a context save that fails returns false and leaves the store as it was,
\* and in both cases the turn still completes with a well-formed response.
C25_StorageFailsOpen ==
    /\ []((pc = "classified" /\ LoadFailed) => context = EmptyContext)
    /\ [][pc = "updated" =>
             /\ Len(store_log') = 2
             /\ store_log'[2][1] = "save"
             /\ store_log'[2][2] = FALSE => stored' = stored
             /\ store_log'[2][2] = TRUE => stored' = Some(context)]_vars
    /\ []((pc = "done" /\ (LoadFailed \/ SaveFailed)) => WellFormedResponse)
    /\ ((pc = "classified" /\ LoadFailed) \/ (pc = "saved" /\ SaveFailed))
          ~> (pc = "done" /\ WellFormedResponse)

\* a turn whose load and save both fail and that still answers
C25_Witness ==
    /\ pc = "done"
    /\ stored # None
    /\ store_log = <<<<"load", "failed">>, <<"save", FALSE>>>>
    /\ context # stored[1]
    /\ WellFormedResponse
    /\ result[1].success

\* the history saved before is the beginning of the history saved now
HistoryExtended ==
    LET before == stored[1].mentioned_assets_history
        after == stored'[1].mentioned_assets_history
    IN  /\ Len(before) <= Len(after)
        /\ SubSeq(after, 1, Len(before)) = before

\* C30: across the turns of one conversation, under any pattern of load and
\* save failures, the stored mentioned_assets_history only grows: every
\* successfully saved history has the previously stored history as a prefix.
C30_StoredHistoryGrows ==
    [][(stored # None /\ stored' # stored) => HistoryExtended]_vars

\* the same for the saves of turns whose load found the stored row
C30_GrowsWhenLoaded ==
    [][(stored # None /\ stored' # stored
          /\ store_log[1] = <<"load", "found">>) => HistoryExtended]_vars

\* a stored history that a later turn, whose load failed, has replaced
C30_HistoryLost ==
    /\ pc = "saved"
    /\ turns = 2
    /\ store_log = <<<<"load", "failed">>, <<"save", TRUE>>>>
    /\ stored # None
    /\ stored[1].mentioned_assets_history = <<>>
    /\ stored[1].active_assets = <<ALL>>

----------------------------------------------------------------------------
(* Interleaved turns.  Every request runs its own chat handler; a handler  *)
(* keeps the context it loaded in a local variable, and the only shared    *)
(* state is the conversation_context table, one row per conversation id.   *)

Conversations == {"c1", "c2"}

\* the conversation id of each running request: two on c1, one on c2
TurnConversations == <<"c1", "c1", "c2">>

\* entities.assets of the turns' classified intents
TurnAssets == {<<>>, <<AAPL>>, <<MSFT>>}

TurnOutput(assets) ==
    RouterAIOutput("analytics", "trend", assets, None, FALSE, <<>>, None)

\* a handler before its first statement
NewHandler(c) ==
    [conversation |-> c, pc |-> "start", snapshot |-> EmptyContext,
     output |-> TurnOutput(<<>>), context |-> EmptyContext]

\* an upsert that merges the row's history into the saved context
store_context_merged(store, ctx) ==
    {[returned |-> TRUE,
      store |-> IF store = None THEN Some(ctx)
                ELSE Some([ctx EXCEPT !.mentioned_assets_history =
                             add_to_history(store[1].mentioned_assets_history,
                                            @)])],
     [returned |-> FALSE, store |-> store]}

\* the upsert of save_context on the row of one conversation id
upsert_context(store, ctx) == store_context(store, ctx)

InitTurns ==
    /\ pc = "turns"
    /\ \E before \in StoredContexts :
          table = [c \in Conversations |-> IF c = "c1" THEN before ELSE None]
    /\ handlers = [h \in 1..Len(TurnConversations) |->
                      NewHandler(TurnConversations[h])]
    /\ saves = <<>>
    /\ user_assets = <<>>
    /\ NoClassify /\ NoCalc /\ NoValidate /\ NoResolve /\ NoExec /\ NoChat

\* context = await get_context(conversation_id)
TurnLoad ==
    /\ pc = "turns"
    /\ \E h \in 1..Len(handlers) :
          /\ handlers[h].pc = "start"
          /\ \E loaded \in load_context(table[handlers[h].conversation]) :
                handlers' = [handlers EXCEPT
                               ![h].pc = "loaded",
                               ![h].snapshot = loaded.context,
                               ![h].context = loaded.context]
    /\ UNCHANGED <<pc, table, saves, user_assets>>
    /\ UNCHANGED <<classify_vars, calc_vars, validate_vars, resolve_vars,
                   exec_vars, chat_vars>>

\* classification and dispatch, then
\* context = update_context_from_result(context, router_output, result)
TurnUpdate ==
    /\ pc = "turns"
    /\ \E h \in 1..Len(handlers), assets \in TurnAssets :
          /\ handlers[h].pc = "loaded"
          /\ handlers' = [handlers EXCEPT
                            ![h].pc = "updated",
                            ![h].output = TurnOutput(assets),
                            ![h].context = update_context_from_result(
                                handlers[h].context, TurnOutput(assets),
                                [success |-> TRUE])]
    /\ UNCHANGED <<pc, table, saves, user_assets>>
    /\ UNCHANGED <<classify_vars, calc_vars, validate_vars, resolve_vars,
                   exec_vars, chat_vars>>

\* await save_context(conversation_id, context)
TurnSave ==
    /\ pc = "turns"
    /\ \E h \in 1..Len(handlers) :
          /\ handlers[h].pc = "updated"
          /\ LET c == handlers[h].conversation
             IN  \E saved \in upsert_context(table[c], handlers[h].context) :
                    /\ table' = [table EXCEPT ![c] = saved.store]
                    /\ saves' = IF saved.returned THEN Append(saves, h)
                                ELSE saves
          /\ handlers' = [handlers EXCEPT ![h].pc = "done"]
    /\ UNCHANGED <<pc, user_assets>>
    /\ UNCHANGED <<classify_vars, calc_vars, validate_vars, resolve_vars,
                   exec_vars, chat_vars>>

NextTurns ==
    \/ TurnLoad
    \/ TurnUpdate
    \/ TurnSave

SpecTurns == InitTurns /\ [][NextTurns]_vars

\* the handlers whose save on conversation c succeeded, in the order of
\* their saves
SavesOn(c) == SelectSeq(saves, LAMBDA h : handlers[h].conversation = c)

\* what handler h computes from the snapshot it loaded
ComputedBy(h) ==
    update_context_from_result(handlers[h].snapshot, handlers[h].output,
                               [success |-> TRUE])

\* the step is the save of a handler of conversation c
IsSaveOn(c) ==
    \E h \in 1..Len(handlers) :
        /\ handlers[h].conversation = c
        /\ handlers[h].pc = "updated"
        /\ handlers'[h].pc = "done"

\* C26: whatever the interleaving of the loads, updates and saves of turns
\* on one conversation id, the stored context after the saves is exactly
\* the context the last saver computed from the snapshot it loaded, never a
\* merge of two turns' contexts, and only a save on the same conversation
\* id changes it.
C26_LastWriteWins ==
    /\ [](pc = "turns" =>
            \A c \in Conversations :
                SavesOn(c) # <<>> =>
                    table[c] = Some(ComputedBy(SavesOn(c)[Len(SavesOn(c))])))
    /\ [][pc = "turns" =>
            \A c \in Conversations : table'[c] # table[c] => IsSaveOn(c)]_vars

\* two turns on c1 that both loaded the empty row and both saved: the row
\* holds the second saver's context and has lost the first saver's asset
C26_Witness ==
    /\ pc = "turns"
    /\ SavesOn("c1") = <<1, 2>>
    /\ SavesOn("c2") = <<3>>
    /\ handlers[1].snapshot = EmptyContext
    /\ handlers[2].snapshot = EmptyContext
    /\ handlers[1].output.entities.assets = <<AAPL>>
    /\ handlers[2].output.entities.assets = <<MSFT>>
    /\ table["c1"] = Some(handlers[2].context)
    /\ table["c1"][1].mentioned_assets_history = <<MSFT>>
    /\ table["c2"] = Some(handlers[3].context)

====
